---- MODULE Spec2Model ----
(***************************************************************************)
(* Jobshot: the POST /api/run-job handler, its connectivity preflight and  *)
(* the Job submission, in two revisions of the server, and the browser's   *)
(* run modal (App.tsx, JobRunModal.tsx, useJobs.ts) that posts to it:      *)
(*   "server"  src/server.js          (version + namespace-list preflight, *)
(*                                     safeListPods / safeCreateJob)       *)
(*   "prober"  src/unnamed/part_001   (rawListPods, selfSubjectAccessReview*)
(*                                     listPodsInNamespace)                *)
(* The cluster is the environment: every call to it returns one of the     *)
(* outcomes the API can produce.  Every await of a handler is one action.  *)
(* Spec is the server under arbitrary request bodies, UiSpec the server    *)
(* under the bodies the run modal submits, SlugSpec the name slug alone.   *)
(***************************************************************************)
EXTENDS Integers, Sequences, FiniteSets, TLC

NONE == "NONE"  \* undefined / null / absent

(***************************************************************************)
(* JavaScript values of the JSON request body.  Strings are sequences of   *)
(* one-character strings so that trim() and the slug are computed.         *)
(***************************************************************************)
Undef == [t |-> "undefined", s |-> <<>>]
Num == [t |-> "number", s |-> <<>>]      \* a non-zero number
Str(s) == [t |-> "string", s |-> s]
Arr(s) == [t |-> "array", s |-> s]

Truthy(v) == v.t \in {"number", "array"} \/ (v.t = "string" /\ v.s # <<>>)

IsWs(c) == c \in {" ", "\t", "\n"}

RECURSIVE TrimStart(_)
TrimStart(s) ==
  IF s # <<>> /\ IsWs(Head(s)) THEN TrimStart(Tail(s)) ELSE s

RECURSIVE TrimEnd(_)
TrimEnd(s) ==
  IF s # <<>> /\ IsWs(s[Len(s)]) THEN TrimEnd(SubSeq(s, 1, Len(s) - 1)) ELSE s

\* String.prototype.trim
Trim(s) == TrimEnd(TrimStart(s))

\* String.prototype.toLowerCase on the letters the model uses
LowerChar(c) ==
  CASE c = "B" -> "b"
    [] c = "D" -> "d"
    [] OTHER -> c

ToLowerCase(s) == [i \in 1..Len(s) |-> LowerChar(s[i])]

\* s.replace(/\s/g, '-'): every whitespace character becomes a hyphen
ReplaceWsEach(s) == [i \in 1..Len(s) |-> IF IsWs(s[i]) THEN "-" ELSE s[i]]

\* s.replace(/\s+/g, '-'): every maximal whitespace run becomes one hyphen
RECURSIVE ReplaceWsRuns(_)
ReplaceWsRuns(s) ==
  IF s = <<>> THEN <<>>
  ELSE IF IsWs(Head(s)) THEN <<"-">> \o ReplaceWsRuns(TrimStart(Tail(s)))
  ELSE <<Head(s)>> \o ReplaceWsRuns(Tail(s))

\* nameSlug without the toLowerCase step
nameSlugNoLower(name) == ReplaceWsRuns(name)

\* nameSlug of runK8sJob
nameSlug(name) == ReplaceWsRuns(ToLowerCase(name))

(***************************************************************************)
(* Process environment and mounted service-account files.                  *)
(***************************************************************************)
API_EXT == "https://k8s.example:6443"    \* a well-formed VITE_K8S_API
API_BAD == "k8s.example"                 \* new URL(...) throws on it
API_IN == "https://10.0.0.1:443"         \* https://${host}:${port}
TOKEN_EXT == "token-explicit"            \* VITE_K8S_TOKEN
TOKEN_SA == "token-serviceaccount"       \* content of the mounted token file

EnvTruthy(v) == v \notin {NONE, ""}
EnvTrim(v) == IF v \in {"", " "} THEN "" ELSE v
IsValidURL(v) == v \in {API_EXT, API_IN}

\* getK8sConfig of a module that read process.env once, when it was loaded
getK8sConfigAtStartup(e) == [apiServer |-> API_EXT, token |-> TOKEN_EXT]

\* getK8sConfig
getK8sConfig(e) == [apiServer |-> e.VITE_K8S_API, token |-> e.VITE_K8S_TOKEN]

\* buildInClusterBaseURL
buildInClusterBaseURL(e) ==
  IF EnvTruthy(e.KUBERNETES_SERVICE_HOST) /\ EnvTruthy(e.KUBERNETES_SERVICE_PORT)
  THEN API_IN ELSE NONE

\* readServiceAccountToken: the trimmed file content, null when unreadable
readServiceAccountToken(e) == IF e.saToken = NONE THEN NONE ELSE EnvTrim(e.saToken)

\* validateJobParams without its test of job.container
validateJobParamsNoContainerTest(job, apiServer, token, namespace) ==
  IF apiServer = NONE \/ EnvTrim(apiServer) = "" THEN "api-required"
  ELSE IF ~IsValidURL(apiServer) THEN "api-invalid"
  ELSE IF token = NONE \/ EnvTrim(token) = "" THEN "token-required"
  ELSE IF namespace.t # "string" \/ Trim(namespace.s) = <<>> THEN "namespace-required"
  ELSE IF ~Truthy(job.name) \/ job.name.t # "string" \/ Trim(job.name.s) = <<>>
    THEN "name-required"
  ELSE IF job.parameters.t # "array" THEN "parameters-array"
  ELSE NONE

\* validateJobParams of src/server.js: apiServer and token are mandatory
validateJobParams(job, apiServer, token, namespace) ==
  IF apiServer = NONE \/ EnvTrim(apiServer) = "" THEN "api-required"
  ELSE IF ~IsValidURL(apiServer) THEN "api-invalid"
  ELSE IF token = NONE \/ EnvTrim(token) = "" THEN "token-required"
  ELSE IF namespace.t # "string" \/ Trim(namespace.s) = <<>> THEN "namespace-required"
  ELSE IF ~Truthy(job.name) \/ job.name.t # "string" \/ Trim(job.name.s) = <<>>
    THEN "name-required"
  ELSE IF ~Truthy(job.container) \/ job.container.t # "string"
          \/ Trim(job.container.s) = <<>>
    THEN "container-required"
  ELSE IF job.parameters.t # "array" THEN "parameters-array"
  ELSE NONE

\* validateJobParams of the prober revision: apiServer and token are checked
\* only in external mode
validateJobParamsP(job, apiServer, token, namespace) ==
  LET externalMode == EnvTruthy(apiServer) /\ EnvTruthy(token) IN
  IF externalMode /\ EnvTrim(apiServer) = "" THEN "api-required"
  ELSE IF externalMode /\ ~IsValidURL(apiServer) THEN "api-invalid"
  ELSE IF externalMode /\ EnvTrim(token) = "" THEN "token-required"
  ELSE IF namespace.t # "string" \/ Trim(namespace.s) = <<>> THEN "namespace-required"
  ELSE IF ~Truthy(job.name) \/ job.name.t # "string" \/ Trim(job.name.s) = <<>>
    THEN "name-required"
  ELSE IF ~Truthy(job.container) \/ job.container.t # "string"
          \/ Trim(job.container.s) = <<>>
    THEN "container-required"
  ELSE IF job.parameters.t # "array" THEN "parameters-array"
  ELSE NONE

\* loadK8sConfig of src/server.js: always the explicit server and token
loadK8sConfig(apiServer, token) ==
  [server |-> apiServer, token |-> token, skipTLSVerify |-> TRUE]

\* buildK8sClient of the prober revision
buildK8sClient(e) ==
  LET c == getK8sConfig(e) IN
  IF EnvTruthy(c.apiServer) /\ EnvTruthy(c.token)
  THEN [server |-> c.apiServer, token |-> c.token, skipTLSVerify |-> TRUE]
  ELSE [server |-> buildInClusterBaseURL(e), token |-> readServiceAccountToken(e),
        skipTLSVerify |-> FALSE]

\* k8sJob with the parameters in the place of the command
k8sJobCommandFromParameters(job) ==
  [name |-> nameSlug(job.name.s),
   managedBy |-> "jobshot",
   originalName |-> job.name.s,
   image |-> job.container,
   command |-> job.parameters,
   args |-> job.parameters,
   restartPolicy |-> "Never",
   backoffLimit |-> 1]

\* k8sJob with the slug in the place of the annotation's original name
k8sJobSlugAnnotation(job) ==
  [name |-> nameSlug(job.name.s),
   managedBy |-> "jobshot",
   originalName |-> nameSlug(job.name.s),
   image |-> job.container,
   command |-> job.entrypoint,
   args |-> job.parameters,
   restartPolicy |-> "Never",
   backoffLimit |-> 1]

\* the Job manifest of runK8sJob (both revisions build the same object)
k8sJob(job) ==
  [name |-> nameSlug(job.name.s),
   managedBy |-> "jobshot",
   originalName |-> job.name.s,
   image |-> job.container,
   command |-> job.entrypoint,
   args |-> job.parameters,
   restartPolicy |-> "Never",
   backoffLimit |-> 1]

(***************************************************************************)
(* Inputs: the deployed revision with its environment, and request bodies. *)
(***************************************************************************)
Flag == {NONE, "true"}

\* src/server.js reads VITE_K8S_API and VITE_K8S_TOKEN only
ServerEnvs ==
  [VITE_K8S_API : {NONE, API_EXT, API_BAD}, VITE_K8S_TOKEN : {NONE, TOKEN_EXT},
   KUBERNETES_SERVICE_HOST : {NONE}, KUBERNETES_SERVICE_PORT : {NONE},
   USE_INCLUSTER_API : {NONE}, SKIP_K8S_TLS_VERIFY : {NONE},
   ALLOW_TLS_FALLBACK : {NONE}, saToken : {NONE}, saCa : {FALSE}]

ProberEnvs ==
  [VITE_K8S_API : {NONE, API_EXT}, VITE_K8S_TOKEN : {NONE, TOKEN_EXT},
   KUBERNETES_SERVICE_HOST : {NONE, "10.0.0.1"}, KUBERNETES_SERVICE_PORT : {"443"},
   USE_INCLUSTER_API : Flag, SKIP_K8S_TLS_VERIFY : Flag,
   ALLOW_TLS_FALLBACK : Flag, saToken : {NONE, TOKEN_SA}, saCa : BOOLEAN]
  \cup
  [VITE_K8S_API : {API_BAD}, VITE_K8S_TOKEN : {NONE, TOKEN_EXT},
   KUBERNETES_SERVICE_HOST : {NONE}, KUBERNETES_SERVICE_PORT : {NONE},
   USE_INCLUSTER_API : {NONE}, SKIP_K8S_TLS_VERIFY : {NONE},
   ALLOW_TLS_FALLBACK : {NONE}, saToken : {NONE}, saCa : {FALSE}]

GoodName == Str(<<"B", " ", "d">>)
GoodImage == Str(<<"i">>)
GoodNamespace == Str(<<"j">>)

Bodies ==
  [name : {Undef, Num, Str(<<>>), Str(<<" ">>), GoodName},
   container : {Undef, Num, Str(<<>>), Str(<<" ">>), GoodImage},
   parameters : {Undef, Arr(<< <<"x">> >>)},
   entrypoint : {Arr(<< <<"s">> >>)},
   namespace : {Undef, Str(<<" ">>), GoodNamespace}]

NoBody ==
  [name |-> Undef, container |-> Undef, parameters |-> Undef, entrypoint |-> Undef,
   namespace |-> Undef]

(***************************************************************************)
(* State.                                                                  *)
(***************************************************************************)
VARIABLES
  rev,             \* the deployed revision: "server" or "prober"
  env,             \* process.env and the mounted service-account files
  jobs,            \* Job objects of the cluster: [namespace, name]
  pc,              \* position of the run-job handler
  req,             \* req.body of the request being handled
  kc,              \* the KubeConfig built for this request
  baseIdx,         \* rawListPods: index of the candidate being tried
  lastNetworkErr,  \* rawListPods: lastNetworkErr.base, NONE when unset
  primary,         \* validateK8sConnectivity: what its rawListPods returned
  podListResult,   \* the handler: what listPodsInNamespace returned
  rbac,            \* selfSubjectAccessReview: results
  calls,           \* requests this handler has sent to the cluster
  res,             \* the HTTP response, status 0 while none was sent
  ui,              \* the browser: App's activeJob and the state of JobRunModal
  parked,          \* a second run-job handler, suspended at an await
  hook             \* the browser: the state of useJobs and its status requests

vars ==
  <<rev, env, jobs, pc, req, kc, baseIdx, lastNetworkErr, primary, podListResult, rbac,
    calls, res, ui, parked, hook>>

NoKc == [server |-> NONE, token |-> NONE, skipTLSVerify |-> FALSE]
NoErr == [kind |-> "none", status |-> 0, txt |-> "plain"]
NoResult == [ok |-> FALSE, method |-> NONE, base |-> NONE, err |-> NoErr]
NoRes == [status |-> 0, kind |-> "none", detail |-> NONE]

\* the browser with no modal open and no status request sent; variant is the
\* revision of JobRunModal: "plain" (container and parameters) or
\* "resources" (with the four resource fields); edits and sent count the
\* edits of the form and the run requests sent since the modal was opened
NoUi(variant) ==
  [variant |-> variant, activeJob |-> <<>>, container |-> <<>>, parametersText |-> <<>>,
   reqCpu |-> <<>>, reqMem |-> <<>>, limCpu |-> <<>>, limMem |-> <<>>,
   error |-> NONE, edits |-> 0, sent |-> 0, polled |-> <<>>]

\* a handler that holds no request
NoHandler ==
  [pc |-> "idle", req |-> NoBody, kc |-> NoKc, baseIdx |-> 0, lastNetworkErr |-> NONE,
   primary |-> NoResult, podListResult |-> NoResult, rbac |-> <<>>, calls |-> <<>>,
   res |-> NoRes]

\* useJobs before its first effect: loading, no job, no interval, no timer
\* and no status request in flight
NoHook ==
  [loading |-> TRUE, jobs |-> <<>>, statuses |-> <<>>, interval |-> FALSE,
   runTimer |-> FALSE, batches |-> <<>>, captured |-> <<>>, superseded |-> <<>>,
   last |-> "none", runs |-> <<>>, lastRun |-> <<>>, hung |-> 0]

Init ==
  /\ rev \in {"server", "prober"}
  /\ env \in IF rev = "server" THEN ServerEnvs ELSE ProberEnvs
  /\ jobs = {}
  /\ pc = "idle"
  /\ req = NoBody
  /\ kc = NoKc
  /\ baseIdx = 0
  /\ lastNetworkErr = NONE
  /\ primary = NoResult
  /\ podListResult = NoResult
  /\ rbac = <<>>
  /\ calls = <<>>
  /\ res = NoRes
  /\ parked = NoHandler
  /\ hook = NoHook
  /\ ui = NoUi("plain")

\* the locals of the handler that an action leaves alone
Locals == <<baseIdx, lastNetworkErr, primary, podListResult, rbac>>

\* res.status(s).send(...) followed by the handler's return
Respond(s, kind, detail) ==
  /\ res' = [status |-> s, kind |-> kind, detail |-> detail]
  /\ pc' = "done"

\* an exception that reaches the catch of the handler's try block
CatchJobStartError(e) == Respond(500, "exception", e) /\ UNCHANGED Locals

\* the record of a request sent by the direct transport (fetch)
DirectCall(op, base, verify, auth, o, arg) ==
  [op |-> op, base |-> base, verify |-> verify, auth |-> auth, out |-> o.k,
   status |-> o.status, code |-> o.code, txt |-> o.txt, arg |-> arg]

\* the record of a call made through the structured client kc
ClientCall(op, out, arg) ==
  [op |-> op, base |-> kc.server, verify |-> ~kc.skipTLSVerify, auth |-> kc.token,
   out |-> out, status |-> 0, code |-> NONE, txt |-> "plain", arg |-> arg]

(***************************************************************************)
(* Prober revision: rawListPods.                                           *)
(***************************************************************************)
\* the candidate endpoints, in the order rawListPods tries them
bases(e) ==
  IF e.USE_INCLUSTER_API = "true"
  THEN <<buildInClusterBaseURL(e), e.VITE_K8S_API>>
  ELSE <<e.VITE_K8S_API, buildInClusterBaseURL(e)>>

\* NextBase of a loop that ends after its first candidate
NextBaseFirstOnly(e, i) ==
  IF i = 1 /\ \E j \in 1..Len(bases(e)) : EnvTruthy(bases(e)[j])
  THEN CHOOSE j \in 1..Len(bases(e)) :
         /\ EnvTruthy(bases(e)[j])
         /\ \A k \in 1..(j - 1) : ~EnvTruthy(bases(e)[k])
  ELSE 0

\* the first candidate at or after position i that is not skipped by
\* `if (!base) continue`; 0 when the loop is over
NextBase(e, i) ==
  IF \E j \in i..Len(bases(e)) : EnvTruthy(bases(e)[j])
  THEN CHOOSE j \in i..Len(bases(e)) :
         /\ EnvTruthy(bases(e)[j])
         /\ \A k \in i..(j - 1) : ~EnvTruthy(bases(e)[k])
  ELSE 0

\* rejectUnauthorized of the https.Agent of rawListPods and of
\* selfSubjectAccessReview
rejectUnauthorized(e) == ~(e.SKIP_K8S_TLS_VERIFY = "true") /\ e.saCa

\* the bearer token of the Authorization header of the direct transport,
\* NONE when the header is not set
directAuthorization(e) ==
  IF EnvTruthy(readServiceAccountToken(e)) THEN readServiceAccountToken(e) ELSE NONE

\* allowFallback of rawListPods and selfSubjectAccessReview
allowFallback(e) ==
  e.ALLOW_TLS_FALLBACK = "true" \/ e.SKIP_K8S_TLS_VERIFY = "true"

\* isNetworkError: the error codes that make rawListPods try the next candidate
isNetworkError(code) ==
  code \in {"ECONNREFUSED", "ETIMEDOUT", "ENETUNREACH", "EHOSTUNREACH", "ECONNRESET"}

\* what the text of an HTTP error body can contain, as far as the tests of
\* listPodsInNamespace tell: "param" matches /parameter/i, "perm" matches
\* /forbidden|Unauthorized/i
HttpFailures ==
  {[status |-> 401, txt |-> "plain"], [status |-> 401, txt |-> "perm"],
   [status |-> 403, txt |-> "perm"], [status |-> 403, txt |-> "param"],
   [status |-> 500, txt |-> "plain"], [status |-> 500, txt |-> "perm"]}

\* the outcomes of fetch(url, {headers, agent}) followed by res.text() or
\* res.json(): a pod list, a 2xx JSON object without an items array, a non-2xx
\* answer, or an exception with its code (a certificate error needs a verifying
\* agent; an unparsable URL or body is the exception without a code)
FetchOutcomes(base, verify) ==
  IF ~IsValidURL(base) THEN {[k |-> "throw", code |-> "ERR_INVALID_URL", status |-> 0, txt |-> "plain"]}
  ELSE {[k |-> "list", code |-> NONE, status |-> 200, txt |-> "plain"],
        [k |-> "nolist", code |-> NONE, status |-> 200, txt |-> "plain"]}
       \cup {[k |-> "http", code |-> NONE, status |-> f.status, txt |-> f.txt] :
               f \in HttpFailures}
       \cup {[k |-> "throw", code |-> c, status |-> 0, txt |-> "plain"] :
               c \in {"ECONNREFUSED", "ETIMEDOUT", NONE}}
       \cup (IF verify
             THEN {[k |-> "throw", code |-> "DEPTH_ZERO_SELF_SIGNED_CERT",
                    status |-> 0, txt |-> "plain"]}
             ELSE {})

\* the results rawListPods returns
RawOk(base, explicit) ==
  [ok |-> TRUE, method |-> IF base = explicit THEN "raw(explicit)" ELSE "raw(incluster)",
   base |-> base, err |-> NoErr]

RawHttpFailure(base, status, txt) ==
  [ok |-> FALSE, method |-> NONE, base |-> base,
   err |-> [kind |-> "http", status |-> status, txt |-> txt]]

RawNetworkError(base) ==
  [ok |-> FALSE, method |-> NONE, base |-> base,
   err |-> [kind |-> "network", status |-> 0, txt |-> "plain"]]

RawAllFailed ==
  [ok |-> FALSE, method |-> NONE, base |-> NONE,
   err |-> [kind |-> "allfailed", status |-> 0, txt |-> "plain"]]

\* /parameter/i.test(raw.error)
MatchesParameter(err) == err.kind = "http" /\ err.txt = "param"

\* /HTTP 403|forbidden|Unauthorized/i.test(raw.error)
MatchesPermission(err) == err.kind = "http" /\ (err.status = 403 \/ err.txt = "perm")

\* RbacActions of a review that asks about the same action three times
RbacActionsRepeated == <<"list pods", "list pods", "list pods">>

\* the actions selfSubjectAccessReview is asked about
RbacActions == <<"list pods", "create jobs">>

(***************************************************************************)
(* Prober revision: the handler after a rawListPods call has returned r.   *)
(***************************************************************************)
\* listPodsInNamespace after its direct read, and the handler up to runK8sJob
AfterListRaw(r) ==
  IF r.ok
  THEN /\ pc' = "create"
       /\ podListResult' = r
       /\ UNCHANGED <<rbac, res>>
  ELSE IF MatchesParameter(r.err) \/ ~MatchesPermission(r.err)
  THEN /\ pc' = "client"
       /\ podListResult' = NoResult
       /\ UNCHANGED <<rbac, res>>
  ELSE /\ Respond(503, "podlist", r.err)
       /\ podListResult' = r
       /\ UNCHANGED rbac

\* rawListPods up to its first fetch, called by listPodsInNamespace
StartListRaw ==
  IF NextBase(env, 1) = 0
  THEN /\ AfterListRaw(RawAllFailed)
       /\ baseIdx' = 0 /\ lastNetworkErr' = NONE
  ELSE /\ pc' = "list_raw"
       /\ baseIdx' = NextBase(env, 1)
       /\ lastNetworkErr' = NONE
       /\ UNCHANGED <<podListResult, rbac, res>>

\* rbacSummary with the branches of its verdict swapped
rbacSummaryVerdictSwapped(results) ==
  [i \in 1..Len(results) |->
     [action |-> results[i].action,
      verdict |-> IF results[i].allowed THEN "denied" ELSE "allowed",
      reason |-> results[i].reason,
      error |-> IF results[i].reason = NONE THEN results[i].error ELSE NONE]]

\* rbacSummary of validateK8sConnectivity: per result the action, the
\* verdict and, in parentheses, the reason or else the error
rbacSummary(results) ==
  [i \in 1..Len(results) |->
     [action |-> results[i].action,
      verdict |-> IF results[i].allowed THEN "allowed" ELSE "denied",
      reason |-> results[i].reason,
      error |-> IF results[i].reason = NONE THEN results[i].error ELSE NONE]]

\* the 503 of a failed validateK8sConnectivity: base, error and RBAC summary
PreflightFailed(r, results) ==
  /\ Respond(503, "preflight",
             [base |-> r.base, err |-> r.err, rbac |-> rbacSummary(results)])
  /\ rbac' = results

\* AfterConnRaw of a handler that does not test connError
AfterConnRawUntested(r) ==
  /\ primary' = r
  /\ StartListRaw

\* validateK8sConnectivity after its direct read, and the handler's test of
\* connError
AfterConnRaw(r) ==
  /\ primary' = r
  /\ IF r.ok
     THEN StartListRaw
     ELSE /\ IF ~EnvTruthy(env.VITE_K8S_API) /\ ~EnvTruthy(buildInClusterBaseURL(env))
             THEN PreflightFailed(r, << [action |-> "(rbac)", allowed |-> FALSE,
                                        reason |-> NONE,
                                        error |-> "No API base URL for RBAC check"] >>)
             ELSE /\ pc' = "ssar"
                  /\ rbac' = <<>>
                  /\ UNCHANGED res
          /\ baseIdx' = 0 /\ lastNetworkErr' = NONE
          /\ UNCHANGED podListResult

\* rawListPods up to its first fetch, called by validateK8sConnectivity
StartConnRaw ==
  IF NextBase(env, 1) = 0
  THEN AfterConnRaw(RawAllFailed)
  ELSE /\ pc' = "conn_raw"
       /\ baseIdx' = NextBase(env, 1)
       /\ lastNetworkErr' = NONE
       /\ UNCHANGED <<primary, podListResult, rbac, res>>

\* the return of rawListPods to its caller
RawReturn(r) ==
  IF pc = "conn_raw"
  THEN AfterConnRaw(r)
  ELSE /\ AfterListRaw(r)
       /\ baseIdx' = 0 /\ lastNetworkErr' = NONE
       /\ UNCHANGED primary

(***************************************************************************)
(* Prober revision: the actions of the handler.                            *)
(***************************************************************************)
\* app.post('/api/run-job') up to the first await: the diagnostic logging,
\* validateJobParams, buildK8sClient and the start of validateK8sConnectivity.
\* `namespace.length` throws outside the try block when the body has no
\* namespace: the promise of the handler rejects.  Express 4 ignores the
\* rejection and no response is sent; Express 5 passes it to its default
\* error handler, which answers 500.  The source does not fix the version.
ReceiveP(body) ==
  /\ rev = "prober"
  /\ pc = "idle"
  /\ req' = body
  /\ calls' = <<>>
  /\ LET c == getK8sConfig(env)
         paramError == validateJobParamsP(body, c.apiServer, c.token, body.namespace)
     IN IF body.namespace.t = "undefined"
        THEN /\ kc' = NoKc
             /\ UNCHANGED Locals
             /\ \/ pc' = "rejected" /\ res' = res
                \/ Respond(500, "framework", "TypeError")
        ELSE IF paramError # NONE
        THEN /\ Respond(400, "validation", paramError)
             /\ kc' = NoKc
             /\ UNCHANGED Locals
        ELSE /\ kc' = buildK8sClient(env)
             /\ StartConnRaw
  /\ UNCHANGED <<parked, hook, ui, rev, env, jobs>>

\* one iteration of the loop of rawListPods: the fetch of the candidate at
\* baseIdx and what the iteration does with its outcome.  An exception that
\* is no network error reaches `tlsShouldFallback(e)`, a name the module
\* neither defines nor imports: the call throws a ReferenceError inside the
\* catch block, which leaves rawListPods and is caught by the handler.
RawFetch ==
  /\ pc \in {"conn_raw", "list_raw"}
  /\ LET base == bases(env)[baseIdx]
         verify == rejectUnauthorized(env)
     IN \E o \in FetchOutcomes(base, verify) :
          /\ calls' = Append(calls, DirectCall("rawListPods", base, verify,
                                               directAuthorization(env), o, pc))
          /\ CASE o.k \in {"list", "nolist"} ->
                    RawReturn(RawOk(base, env.VITE_K8S_API))
               [] o.k = "http" ->
                    RawReturn(RawHttpFailure(base, o.status, o.txt))
               [] o.k = "throw" /\ isNetworkError(o.code) ->
                    IF NextBase(env, baseIdx + 1) # 0
                    THEN /\ baseIdx' = NextBase(env, baseIdx + 1)
                         /\ lastNetworkErr' = base
                         /\ UNCHANGED <<pc, primary, podListResult, rbac, res>>
                    ELSE RawReturn(RawNetworkError(base))
               [] OTHER ->
                    CatchJobStartError("ReferenceError: tlsShouldFallback is not defined")
  /\ UNCHANGED <<parked, hook, ui, rev, env, jobs, req, kc>>

\* the answers to a SelfSubjectAccessReview: a verdict with or without a
\* reason, a JSON body without status, or an exception of fetch
SsarOutcomes(base, verify) ==
  IF ~IsValidURL(base)
  THEN {[k |-> "throw", allowed |-> FALSE, reason |-> NONE, status |-> 0,
         code |-> "ERR_INVALID_URL", txt |-> "plain"]}
  ELSE {[k |-> "json", allowed |-> TRUE, reason |-> NONE, status |-> 201, code |-> NONE,
         txt |-> "plain"],
        [k |-> "json", allowed |-> FALSE, reason |-> "no RBAC rule", status |-> 201,
         code |-> NONE, txt |-> "plain"],
        [k |-> "json", allowed |-> FALSE, reason |-> NONE, status |-> 403, code |-> NONE,
         txt |-> "plain"],
        [k |-> "throw", allowed |-> FALSE, reason |-> NONE, status |-> 0,
         code |-> "ECONNREFUSED", txt |-> "plain"]}
       \cup (IF verify
             THEN {[k |-> "throw", allowed |-> FALSE, reason |-> NONE, status |-> 0,
                    code |-> "DEPTH_ZERO_SELF_SIGNED_CERT", txt |-> "plain"]}
             ELSE {})

\* one iteration of the loop of selfSubjectAccessReview, and the return of
\* validateK8sConnectivity after the last one
SsarFetch ==
  /\ pc = "ssar"
  /\ LET base == IF EnvTruthy(env.VITE_K8S_API) THEN env.VITE_K8S_API
                 ELSE buildInClusterBaseURL(env)
         verify == rejectUnauthorized(env)
         a == RbacActions[Len(rbac) + 1]
     IN \E o \in SsarOutcomes(base, verify) :
          /\ calls' = Append(calls, DirectCall("selfSubjectAccessReview", base, verify,
                                               directAuthorization(env), o,
                                               [namespace |-> req.namespace, action |-> a,
                                                allowed |-> o.allowed,
                                                reason |-> o.reason]))
          /\ IF o.k = "throw" /\ allowFallback(env)
             THEN CatchJobStartError("ReferenceError: tlsShouldFallback is not defined")
             ELSE LET r == IF o.k = "json"
                           THEN [action |-> a, allowed |-> o.allowed,
                                 reason |-> o.reason, error |-> NONE]
                           ELSE [action |-> a, allowed |-> FALSE, reason |-> NONE,
                                 error |-> o.code]
                      results == Append(rbac, r)
                  IN IF Len(results) = Len(RbacActions)
                     THEN /\ PreflightFailed(primary, results)
                          /\ UNCHANGED <<baseIdx, lastNetworkErr, primary, podListResult>>
                     ELSE /\ rbac' = results
                          /\ UNCHANGED <<pc, baseIdx, lastNetworkErr, primary,
                                         podListResult, res>>
  /\ UNCHANGED <<parked, hook, ui, rev, env, jobs, req, kc>>

\* what a call of the structured client can do: only fail when the
\* KubeConfig has no usable server
ClientOutcomes(ok) == IF IsValidURL(kc.server) THEN ok \cup {"throw"} ELSE {"throw"}

\* the structured-client fallback of listPodsInNamespace
ClientListPods ==
  /\ pc = "client"
  /\ \E o \in ClientOutcomes({"list", "nolist"}) :
       /\ calls' = Append(calls, ClientCall("listNamespacedPod", o, NONE))
       /\ IF o = "throw"
          THEN /\ Respond(503, "podlist",
                          [kind |-> "client", status |-> 0, txt |-> "plain"])
               /\ podListResult' =
                    [ok |-> FALSE, method |-> NONE, base |-> NONE,
                     err |-> [kind |-> "client", status |-> 0, txt |-> "plain"]]
          ELSE /\ pc' = "create"
               /\ podListResult' =
                    [ok |-> TRUE, method |-> "client", base |-> NONE, err |-> NoErr]
               /\ res' = res
       /\ UNCHANGED <<baseIdx, lastNetworkErr, primary, rbac>>
  /\ UNCHANGED <<parked, hook, ui, rev, env, jobs, req, kc>>

\* the Job object a manifest creates in a namespace
JobKey(namespace, manifest) == [namespace |-> namespace, name |-> manifest.name]

\* a cluster that does not reject duplicate names
CreateOutcomesNoDuplicateCheck(key) == ClientOutcomes({"created", "unanswered", "forbidden"})

\* what createNamespacedJob can answer: the cluster creates the Job unless
\* one of that name exists in the namespace; or it refuses, or the call
\* fails.  "unanswered": the API server accepted the call and created the
\* Job, and the answer never reached the client, whose call throws.
CreateOutcomes(key) ==
  ClientOutcomes((IF key \in jobs THEN {"conflict"} ELSE {"created", "unanswered"})
                 \cup {"forbidden"})

\* the API server created the Job of the call
Accepted(o) == o \in {"created", "unanswered"}

\* runK8sJob of the prober revision and the end of the handler
CreateJobP ==
  /\ rev = "prober"
  /\ pc = "create"
  /\ LET manifest == k8sJob(req)
         key == JobKey(req.namespace.s, manifest)
     IN \E o \in CreateOutcomes(key) :
          /\ calls' = Append(calls, ClientCall("createNamespacedJob", o, manifest))
          /\ jobs' = IF Accepted(o) THEN jobs \cup {key} ELSE jobs
          /\ IF o = "created"
             THEN /\ Respond(200, "started",
                             [jobName |-> manifest.name, namespace |-> req.namespace])
                  /\ UNCHANGED Locals
             ELSE CatchJobStartError(o)
  /\ UNCHANGED <<parked, hook, ui, rev, env, req, kc>>

\* the handler has ended; the server waits for the next request
Finish ==
  /\ pc \in {"done", "rejected"}
  /\ pc' = "idle"
  /\ req' = NoBody
  /\ kc' = NoKc
  /\ calls' = <<>>
  /\ res' = NoRes
  /\ baseIdx' = 0
  /\ lastNetworkErr' = NONE
  /\ primary' = NoResult
  /\ podListResult' = NoResult
  /\ rbac' = <<>>
  /\ UNCHANGED <<parked, hook, ui, rev, env, jobs>>

(***************************************************************************)
(* src/server.js: the version check.                                       *)
(***************************************************************************)
MIN_SUPPORTED_MAJOR == 1
MIN_SUPPORTED_MINOR == 31

Digits == <<"0", "1", "2", "3", "4", "5", "6", "7", "8", "9">>
IsDigit(c) == \E i \in 1..Len(Digits) : Digits[i] = c
DigitValue(c) == (CHOOSE i \in 1..Len(Digits) : Digits[i] = c) - 1

\* s.replace(/[^0-9]/g, '')
StripNonDigits(s) == SelectSeq(s, IsDigit)

NaN == -1

\* parseInt(s, 10) of a string of digits; NaN for the empty string
RECURSIVE DecimalValue(_)
DecimalValue(s) ==
  IF s = <<>> THEN 0 ELSE 10 * DecimalValue(SubSeq(s, 1, Len(s) - 1)) + DigitValue(s[Len(s)])

parseInt(s) == IF s = <<>> THEN NaN ELSE DecimalValue(s)

\* a version check that looks at the minor number only
isVersionSupportedMinorOnly(info) ==
  LET minor == parseInt(StripNonDigits(info.minor))
  IN minor # NaN /\ minor >= MIN_SUPPORTED_MINOR

\* isVersionSupported
isVersionSupported(info) ==
  LET major == parseInt(StripNonDigits(info.major))
      minor == parseInt(StripNonDigits(info.minor))
  IN IF major = NaN \/ minor = NaN THEN FALSE
     ELSE IF major > MIN_SUPPORTED_MAJOR THEN TRUE
     ELSE IF major < MIN_SUPPORTED_MAJOR THEN FALSE
     ELSE minor >= MIN_SUPPORTED_MINOR

\* the answers of the version endpoint the model draws from
VersionInfos ==
  {[major |-> <<"1">>, minor |-> <<"3", "1">>],
   [major |-> <<"1">>, minor |-> <<"3", "0", "+">>],
   [major |-> <<"2">>, minor |-> <<"0">>],
   [major |-> <<"0">>, minor |-> <<"9", "9">>],
   [major |-> <<>>, minor |-> <<>>]}

(***************************************************************************)
(* src/server.js: the actions of the handler.                              *)
(***************************************************************************)
DefaultNamespace == Str(<<"d", "e", "f", "a", "u", "l", "t">>)

\* `job.namespace || 'default'`
namespaceOf(body) == IF Truthy(body.namespace) THEN body.namespace ELSE DefaultNamespace

\* app.post('/api/run-job') up to the first await: validateJobParams,
\* loadK8sConfig, makeApiClient
ReceiveS(body) ==
  /\ rev = "server"
  /\ pc = "idle"
  /\ req' = body
  /\ calls' = <<>>
  /\ LET c == getK8sConfig(env)
         paramError == validateJobParams(body, c.apiServer, c.token, namespaceOf(body))
     IN IF paramError # NONE
        THEN /\ Respond(400, "validation", paramError)
             /\ kc' = NoKc
        ELSE /\ kc' = loadK8sConfig(c.apiServer, c.token)
             /\ pc' = "version"
             /\ res' = res
  /\ UNCHANGED Locals
  /\ UNCHANGED <<parked, hook, ui, rev, env, jobs>>

\* validateK8sConnectivity: versionClient.getCode(); a failure of the call
\* is logged and ignored, an unsupported version ends the preflight
GetVersion ==
  /\ pc = "version"
  /\ \/ /\ calls' = Append(calls, ClientCall("getCode", "throw", NONE))
        /\ pc' = "nslist"
        /\ res' = res
     \/ \E info \in VersionInfos :
          /\ calls' = Append(calls, ClientCall("getCode", "version", info))
          /\ IF isVersionSupported(info)
             THEN /\ pc' = "nslist"
                  /\ res' = res
             ELSE Respond(400, "connError", "unsupported-version")
  /\ UNCHANGED <<parked, hook, ui, rev, env, jobs, req, kc, Locals>>

\* validateK8sConnectivity: coreApi.listNamespace()
ListNamespace ==
  /\ pc = "nslist"
  /\ \E o \in ClientOutcomes({"list", "nolist"}) :
       /\ calls' = Append(calls, ClientCall("listNamespace", o, NONE))
       /\ CASE o = "throw" -> Respond(400, "connError", "connect-failed")
            [] o = "nolist" -> Respond(400, "connError", "unexpected-format")
            [] OTHER -> /\ pc' = IF Trim(namespaceOf(req).s) = <<>>
                                 THEN "create_object" ELSE "pods_object"
                        /\ res' = res
  /\ UNCHANGED <<parked, hook, ui, rev, env, jobs, req, kc, Locals>>

\* safeListPods, first call: listNamespacedPod({namespace: ns}).  The pod
\* listing is best effort: whatever safeListPods returns or throws, the
\* preflight returns null.
ListPodsObject ==
  /\ pc = "pods_object"
  /\ \E o \in ClientOutcomes({"list", "nolist"}) \cup {"required-parameter"} :
       /\ calls' = Append(calls, ClientCall("listNamespacedPod(object)", o, NONE))
       /\ pc' = IF o = "throw" THEN "pods_positional" ELSE "create_object"
  /\ UNCHANGED <<parked, hook, ui, rev, env, jobs, req, kc, Locals, res>>

\* safeListPods, second call: listNamespacedPod(ns)
ListPodsPositional ==
  /\ pc = "pods_positional"
  /\ \E o \in ClientOutcomes({"list", "nolist"}) \cup {"required-parameter"} :
       /\ calls' = Append(calls, ClientCall("listNamespacedPod(positional)", o, NONE))
       /\ pc' = "create_object"
  /\ UNCHANGED <<parked, hook, ui, rev, env, jobs, req, kc, Locals, res>>

\* the end of the handler after a create call that returned
JobStarted(manifest) ==
  /\ Respond(200, "started", [jobName |-> manifest.name, namespace |-> namespaceOf(req)])
  /\ UNCHANGED Locals

\* runK8sJob and safeCreateJob, first call:
\* createNamespacedJob({namespace: ns, body: k8sJob})
CreateObject ==
  /\ pc = "create_object"
  /\ LET manifest == k8sJob(req)
         key == JobKey(Trim(namespaceOf(req).s), manifest)
     IN \E o \in CreateOutcomes(key) \cup {"required-parameter"} :
          /\ calls' = Append(calls, ClientCall("createNamespacedJob(object)", o, manifest))
          /\ jobs' = IF Accepted(o) THEN jobs \cup {key} ELSE jobs
          /\ CASE o = "created" -> JobStarted(manifest)
               [] o = "required-parameter" -> CatchJobStartError(o)
               [] OTHER -> /\ pc' = "create_positional"
                           /\ UNCHANGED <<Locals, res>>
  /\ UNCHANGED <<parked, hook, ui, rev, env, req, kc>>

\* safeCreateJob, second call: createNamespacedJob(ns, k8sJob)
CreatePositional ==
  /\ pc = "create_positional"
  /\ LET manifest == k8sJob(req)
         key == JobKey(Trim(namespaceOf(req).s), manifest)
     IN \E o \in CreateOutcomes(key) \cup {"required-parameter"} :
          /\ calls' = Append(calls,
                             ClientCall("createNamespacedJob(positional)", o, manifest))
          /\ jobs' = IF Accepted(o) THEN jobs \cup {key} ELSE jobs
          /\ IF o = "created" THEN JobStarted(manifest) ELSE CatchJobStartError(o)
  /\ UNCHANGED <<parked, hook, ui, rev, env, req, kc>>

(***************************************************************************)
(* The specification.                                                      *)
(***************************************************************************)
Receive == \E body \in Bodies : ReceiveS(body) \/ ReceiveP(body)

Next ==
  \/ Receive
  \/ GetVersion
  \/ ListNamespace
  \/ ListPodsObject
  \/ ListPodsPositional
  \/ CreateObject
  \/ CreatePositional
  \/ RawFetch
  \/ SsarFetch
  \/ ClientListPods
  \/ CreateJobP
  \/ Finish

Spec == Init /\ [][Next]_vars

(***************************************************************************)
(* Properties.  `calls` holds, in order, every request the handler of the  *)
(* current run-job request has sent to the cluster, with its outcome.      *)
(***************************************************************************)
IsCreate(c) ==
  c.op \in {"createNamespacedJob", "createNamespacedJob(object)",
            "createNamespacedJob(positional)"}

IsDirect(c) == c.op \in {"rawListPods", "selfSubjectAccessReview"}

\* a direct pod read, of validateK8sConnectivity ("conn_raw") or of
\* listPodsInNamespace ("list_raw")
IsRawRead(c, site) == c.op = "rawListPods" /\ c.arg = site

\* a pod read that returned a 2xx answer
ReadReturned(c) ==
  c.op \in {"rawListPods", "listNamespacedPod"} /\ c.out \in {"list", "nolist"}

CreateIssued == \E i \in DOMAIN calls : IsCreate(calls[i])

\* the preflight of the request has reported success before call i: in
\* src/server.js the namespace listing returned a list and no unsupported
\* version was seen; in the prober revision the direct read of
\* validateK8sConnectivity and then a read of listPodsInNamespace returned
PreflightSucceededBefore(i) ==
  IF rev = "server"
  THEN /\ \E j \in 1..(i - 1) : calls[j].op = "listNamespace" /\ calls[j].out = "list"
       /\ \A j \in 1..(i - 1) :
            calls[j].op = "getCode" /\ calls[j].out = "version"
              => isVersionSupported(calls[j].arg)
  ELSE \E j \in 1..(i - 1) : \E k \in (j + 1)..(i - 1) :
         /\ IsRawRead(calls[j], "conn_raw") /\ ReadReturned(calls[j])
         /\ ReadReturned(calls[k])
         /\ calls[k].op = "rawListPods" => calls[k].arg = "list_raw"

\* call i is where the preflight of the request failed
PreflightFailedAt(i) ==
  LET c == calls[i] IN
  \/ c.op = "getCode" /\ c.out = "version" /\ ~isVersionSupported(c.arg)
  \/ c.op = "listNamespace" /\ c.out # "list"
  \/ IsRawRead(c, "conn_raw") /\ c.out = "http"
  \/ c.op = "selfSubjectAccessReview"
  \/ c.op = "listNamespacedPod" /\ c.out = "throw"
  \/ /\ IsRawRead(c, "list_raw") /\ c.out = "http"
     /\ (c.status = 403 \/ c.txt = "perm") /\ c.txt # "param"

\* C1: a create-Job call is issued only after the preflight of the same
\* request reported success; after a preflight failure no create call is
\* issued in that request and the response is not 200.
C1_CreateOnlyAfterPreflight ==
  /\ \A i \in DOMAIN calls : IsCreate(calls[i]) => PreflightSucceededBefore(i)
  /\ \A i \in DOMAIN calls :
       PreflightFailedAt(i) =>
         /\ \A j \in (i + 1)..Len(calls) : ~IsCreate(calls[j])
         /\ res.status # 200

C1_Witness ==
  /\ pc = "done"
  /\ rev = "prober"
  /\ \E i \in DOMAIN calls : IsRawRead(calls[i], "conn_raw") /\ calls[i].out = "http"
  /\ res.status = 503
  /\ ~CreateIssued

\* the fields of a request body that validateJobParams must reject
BadJobField(v) == ~Truthy(v) \/ v.t # "string" \/ Trim(v.s) = <<>>

BadJob(job) ==
  BadJobField(job.name) \/ BadJobField(job.container) \/ job.parameters.t # "array"

ValidationMessages ==
  {"api-required", "api-invalid", "token-required", "namespace-required",
   "name-required", "container-required", "parameters-array"}

\* C2: a run-job request whose name or container is missing, not a string,
\* empty or blank, or whose parameters is not an array, makes no cluster call
\* and is never answered 200; src/server.js answers it 400 with the message
\* of validateJobParams; every create call carries a non-blank name, a
\* non-blank container and an array of parameters.
C2_InvalidJobRejected ==
  /\ pc # "idle" /\ BadJob(req) =>
       /\ calls = <<>>
       /\ res.status # 200
       /\ rev = "server" =>
            /\ pc = "done"
            /\ res.status = 400
            /\ res.kind = "validation"
            /\ res.detail \in ValidationMessages
  /\ \A i \in DOMAIN calls :
       IsCreate(calls[i]) =>
         /\ ~BadJob(req)
         /\ calls[i].arg.originalName = req.name.s
         /\ calls[i].arg.image = req.container
         /\ calls[i].arg.args = req.parameters

C2_Witness ==
  /\ rev = "server"
  /\ pc = "done"
  /\ req.name = Str(<<" ">>)
  /\ res.status = 400
  /\ res.detail = "name-required"
  /\ calls = <<>>

ReferenceErrorThrown ==
  res.kind = "exception"
  /\ res.detail = "ReferenceError: tlsShouldFallback is not defined"

\* C3 (as claimed): when the cluster lets the credential list pods but
\* answers 403 to the create call, the request is answered 503 and the
\* detail carries the verdict `create jobs=denied`.
C3_ForbiddenCreateAnswered503 ==
  /\ rev = "prober"
  /\ pc = "done"
  /\ \E i \in DOMAIN calls : IsCreate(calls[i]) /\ calls[i].out = "forbidden"
  /\ \A i \in DOMAIN calls : calls[i].op = "rawListPods" => calls[i].out = "list"
  => /\ res.status = 503
     /\ res.kind = "preflight"
     /\ \E k \in DOMAIN res.detail.rbac :
          /\ res.detail.rbac[k].action = "create jobs"
          /\ res.detail.rbac[k].verdict = "denied"

\* C4 (as claimed): a request passes the preflight, and proceeds to the
\* create call, if and only if some pod read of the request returned a
\* well-formed pod list; and a request whose direct read failed at every
\* candidate for a reason other than a permission error has consulted the
\* structured client before it is answered.
C4_PassesIffSomeReadListedPods ==
  rev = "prober" /\ pc = "done" /\ calls # <<>> /\ ~ReferenceErrorThrown
  => /\ CreateIssued <=>
          \E i \in DOMAIN calls :
            calls[i].op \in {"rawListPods", "listNamespacedPod"} /\ calls[i].out = "list"
     /\ primary.err.kind = "network" =>
          \E i \in DOMAIN calls : calls[i].op = "listNamespacedPod"

\* the candidates rawListPods does not skip, in the order it tries them
Candidates(e) == SelectSeq(bases(e), EnvTruthy)

IsNetworkFailure(c) == c.op = "rawListPods" /\ c.out = "throw" /\ isNetworkError(c.code)

\* the position of a candidate among the candidates
CandidateIndex(b) == CHOOSE n \in 1..Len(Candidates(env)) : Candidates(env)[n] = b

\* what rawListPods returned to the call site of read i
ResultOf(i) == IF calls[i].arg = "conn_raw" THEN primary ELSE podListResult

\* C5: a network error at one candidate is not the result of rawListPods
\* while an untried candidate remains: the next candidate is read; when the
\* first candidate fails with a network error and the second returns a pod
\* list the result is ok with the base and the method of the second
\* candidate; a network error is returned only after every candidate failed.
C5_NetworkErrorTriesNextCandidate ==
  /\ \A i \in DOMAIN calls :
       IsNetworkFailure(calls[i]) /\ CandidateIndex(calls[i].base) < Len(Candidates(env))
       => IF i = Len(calls)
          THEN pc = calls[i].arg
          ELSE /\ IsRawRead(calls[i + 1], calls[i].arg)
               /\ calls[i + 1].base = Candidates(env)[CandidateIndex(calls[i].base) + 1]
  /\ \A i \in DOMAIN calls :
       /\ i < Len(calls)
       /\ IsNetworkFailure(calls[i])
       /\ IsRawRead(calls[i + 1], calls[i].arg)
       /\ calls[i + 1].out = "list"
       => /\ ResultOf(i + 1).ok
          /\ ResultOf(i + 1).base = bases(env)[2]
          /\ ResultOf(i + 1).method =
               IF env.USE_INCLUSTER_API = "true" THEN "raw(explicit)" ELSE "raw(incluster)"
  /\ primary.err.kind = "network" =>
       \A n \in 1..Len(Candidates(env)) :
         \E i \in DOMAIN calls :
           /\ IsRawRead(calls[i], "conn_raw")
           /\ IsNetworkFailure(calls[i])
           /\ calls[i].base = Candidates(env)[n]

C5_Witness ==
  /\ pc = "create"
  /\ Len(calls) >= 2
  /\ IsNetworkFailure(calls[Len(calls) - 1])
  /\ IsRawRead(calls[Len(calls)], "list_raw")
  /\ calls[Len(calls)].out = "list"
  /\ podListResult.ok
  /\ podListResult.base = bases(env)[2]

\* C6 (as claimed): after a direct read answered 401 or 403 no further read
\* is attempted in that preflight, neither at another candidate nor through
\* the structured client; after any other failure of the direct read of
\* listPodsInNamespace the structured client is called exactly once.
C6_PermissionErrorEndsReads ==
  /\ \A i \in DOMAIN calls :
       calls[i].op = "rawListPods" /\ calls[i].out = "http" /\ calls[i].status \in {401, 403}
       => \A j \in (i + 1)..Len(calls) :
            /\ ~IsRawRead(calls[j], calls[i].arg)
            /\ calls[j].op # "listNamespacedPod"
  /\ \A i \in DOMAIN calls :
       /\ IsRawRead(calls[i], "list_raw")
       /\ pc \in {"create", "done"}
       /\ \/ calls[i].out = "http" /\ calls[i].status \notin {401, 403}
          \/ IsNetworkFailure(calls[i]) /\ (i = Len(calls) \/ ~IsRawRead(calls[i + 1], "list_raw"))
       => Cardinality({j \in DOMAIN calls : calls[j].op = "listNamespacedPod"}) = 1

\* C7 (as claimed): no request of the direct transport has certificate
\* verification disabled unless SKIP_K8S_TLS_VERIFY or ALLOW_TLS_FALLBACK is
\* 'true'.
C7_VerificationOffOnlyByOptIn ==
  \A i \in DOMAIN calls :
    IsDirect(calls[i]) /\ ~calls[i].verify => allowFallback(env)

IsTrustFailure(c) ==
  c.op = "rawListPods" /\ c.out = "throw" /\ c.code = "DEPTH_ZERO_SELF_SIGNED_CERT"

\* C8 (as claimed): when the verified direct read fails with a TLS trust
\* error, with the opt-in flag rawListPods retries the same endpoint once
\* with verification disabled; without the flag it makes no retry and the
\* request is answered 503.
C8_TrustErrorRetryOrReport ==
  \A i \in DOMAIN calls :
    IsTrustFailure(calls[i]) /\ pc = "done"
    => IF allowFallback(env)
       THEN /\ i < Len(calls)
            /\ calls[i + 1].op = "rawListPods"
            /\ calls[i + 1].base = calls[i].base
            /\ ~calls[i + 1].verify
       ELSE /\ \A j \in (i + 1)..Len(calls) : calls[j].op # "rawListPods"
            /\ res.status = 503

IsSsar(c) == c.op = "selfSubjectAccessReview"

\* the diagnostic holds, for each action in turn, the verdict the cluster
\* gave for the namespace of the request, with its reason when it denied
VerdictsReported(summary) ==
  LET reviews == SelectSeq(calls, IsSsar) IN
  /\ Len(summary) = Len(RbacActions)
  /\ Len(reviews) = Len(RbacActions)
  /\ \A k \in 1..Len(RbacActions) :
       /\ summary[k].action = RbacActions[k]
       /\ reviews[k].arg.action = RbacActions[k]
       /\ reviews[k].arg.namespace = req.namespace
       /\ summary[k].verdict =
            IF reviews[k].out = "json" /\ reviews[k].arg.allowed
            THEN "allowed" ELSE "denied"
       /\ reviews[k].out = "json" /\ reviews[k].arg.reason # NONE
          => summary[k].reason = reviews[k].arg.reason

\* C9 (as claimed): every preflight failure validateK8sConnectivity reports
\* carries one verdict for `list pods` and one for `create jobs`.
C9_EveryFailureCarriesVerdicts ==
  res.kind = "preflight" => VerdictsReported(res.detail.rbac)

HasApiBase(e) == EnvTruthy(e.VITE_K8S_API) \/ EnvTruthy(buildInClusterBaseURL(e))

\* C9 (amended): a preflight failure reported while an API base URL is
\* configured carries one verdict for `list pods` and one for `create jobs`
\* in the namespace of the request, with the cluster's reason when denied;
\* without any base URL it carries the single entry `(rbac)=denied` with the
\* error that no base URL is available.
C9_FailureCarriesVerdictsWhenBaseKnown ==
  res.kind = "preflight" =>
    IF HasApiBase(env)
    THEN VerdictsReported(res.detail.rbac)
    ELSE /\ Len(res.detail.rbac) = 1
         /\ res.detail.rbac[1].action = "(rbac)"
         /\ res.detail.rbac[1].verdict = "denied"
         /\ res.detail.rbac[1].error = "No API base URL for RBAC check"
         /\ ~\E i \in DOMAIN calls : IsSsar(calls[i])

C9_Witness ==
  /\ res.kind = "preflight"
  /\ res.status = 503
  /\ Len(res.detail.rbac) = 2
  /\ res.detail.rbac[2].action = "create jobs"
  /\ res.detail.rbac[2].verdict = "denied"
  /\ res.detail.rbac[2].reason = "no RBAC rule"
  /\ res.detail.rbac[1].verdict = "allowed"

\* C10 (as claimed): in external mode every request of the direct
\* transport to the explicit endpoint carries the explicit token, the token
\* the structured client uses.
C10_DirectRequestsCarryExplicitToken ==
  \A i \in DOMAIN calls :
    /\ IsDirect(calls[i])
    /\ EnvTruthy(env.VITE_K8S_API) /\ EnvTruthy(env.VITE_K8S_TOKEN)
    /\ calls[i].base = env.VITE_K8S_API
    => /\ calls[i].auth = env.VITE_K8S_TOKEN
       /\ calls[i].auth = kc.token

(***************************************************************************)
(* The HTTP request behind each cluster call.                              *)
(***************************************************************************)
\* the requests of the direct transport: `fetch(url, {headers, agent})` is a
\* GET of the pods of the namespace, the access review is a POST of a
\* SelfSubjectAccessReview
directRequestReviewOnPods(op) ==
  IF op = "selfSubjectAccessReview"
  THEN [verb |-> "POST", resource |-> "pods"]
  ELSE [verb |-> "GET", resource |-> "pods"]

directRequest(op) ==
  IF op = "selfSubjectAccessReview"
  THEN [verb |-> "POST", resource |-> "selfsubjectaccessreviews"]
  ELSE [verb |-> "GET", resource |-> "pods"]

\* the requests of the methods of the structured client
clientRequest(op) ==
  CASE op = "getCode" -> [verb |-> "GET", resource |-> "version"]
    [] op = "listNamespace" -> [verb |-> "GET", resource |-> "namespaces"]
    [] op \in {"listNamespacedPod", "listNamespacedPod(object)",
               "listNamespacedPod(positional)"} -> [verb |-> "GET", resource |-> "pods"]
    [] OTHER -> [verb |-> "POST", resource |-> "jobs"]

requestOf(c) == IF IsDirect(c) THEN directRequest(c.op) ELSE clientRequest(c.op)

\* call i is a preflight call: no create call was issued up to it
IsPreflightCall(i) == \A j \in 1..i : ~IsCreate(calls[j])

\* C11: no preflight call is a request that creates, modifies or deletes a
\* Job or a Pod (each is a GET, or the POST of an access review), and the
\* Job set of the cluster changes only in the step in which runK8sJob
\* issues a create call that the cluster accepts.
C11_PreflightLeavesClusterUnchanged ==
  /\ [](\A i \in DOMAIN calls :
          IsPreflightCall(i) =>
            \/ requestOf(calls[i]).verb = "GET"
            \/ requestOf(calls[i]).resource \notin {"jobs", "pods"})
  /\ [][jobs' # jobs =>
          /\ pc \in {"create", "create_object", "create_positional"}
          /\ Len(calls') = Len(calls) + 1
          /\ IsCreate(calls'[Len(calls')])
          /\ Accepted(calls'[Len(calls')].out)]_vars

C11_Witness ==
  /\ jobs # {}
  /\ pc = "done"
  /\ res.status = 503
  /\ \E i \in DOMAIN calls : IsSsar(calls[i])
  /\ \E i \in DOMAIN calls : calls[i].op = "rawListPods"
  /\ ~CreateIssued

CreateCalls == {i \in DOMAIN calls : IsCreate(calls[i])}

\* C12 (as claimed): safeCreateJob issues its second, positional create call
\* only after the first call failed with the 'required parameter' signature;
\* after any other failure of the first call (403, 409, network error) that
\* call is the only create call of the request and the error is answered.
C12_AlternateCreateOnlyOnSignature ==
  rev = "server" =>
    /\ \A i \in DOMAIN calls :
         calls[i].op = "createNamespacedJob(positional)" =>
           /\ i > 1
           /\ calls[i - 1].op = "createNamespacedJob(object)"
           /\ calls[i - 1].out = "required-parameter"
    /\ \A i \in DOMAIN calls :
         /\ calls[i].op = "createNamespacedJob(object)"
         /\ calls[i].out \in {"forbidden", "conflict", "throw"}
         /\ pc = "done"
         => /\ Cardinality(CreateCalls) = 1
            /\ res.status = 500

\* the rawListPods requests one call site sent to one candidate
RawReadsAt(site, base) ==
  {i \in DOMAIN calls : IsRawRead(calls[i], site) /\ calls[i].base = base}

\* the access reviews asked about one action
ReviewsOf(a) == {i \in DOMAIN calls : IsSsar(calls[i]) /\ calls[i].arg.action = a}

CallsOf(op) == {i \in DOMAIN calls : calls[i].op = op}

\* C13: a run-job request issues a bounded number of cluster calls and no
\* step of the handler repeats without issuing one: safeListPods and
\* safeCreateJob call each convention at most once, the object convention
\* first; each rawListPods invocation sends at most two requests to a
\* candidate and tries at most two candidates; selfSubjectAccessReview sends
\* at most two requests per action; every step of a handler that has not
\* answered appends one call, so the handler ends after finitely many steps.
C13_BoundedClusterCalls ==
  /\ [](/\ \A op \in {"listNamespacedPod(object)", "listNamespacedPod(positional)",
                      "createNamespacedJob(object)", "createNamespacedJob(positional)",
                      "createNamespacedJob", "listNamespacedPod", "getCode",
                      "listNamespace"} :
             Cardinality(CallsOf(op)) <= 1
        /\ \A i \in CallsOf("listNamespacedPod(positional)") :
             i > 1 /\ calls[i - 1].op = "listNamespacedPod(object)"
        /\ \A i \in CallsOf("createNamespacedJob(positional)") :
             i > 1 /\ calls[i - 1].op = "createNamespacedJob(object)"
        /\ \A site \in {"conn_raw", "list_raw"} :
             /\ \A n \in 1..Len(bases(env)) :
                  Cardinality(RawReadsAt(site, bases(env)[n])) <= 2
             /\ Cardinality({calls[i].base : i \in {j \in DOMAIN calls :
                                                    IsRawRead(calls[j], site)}}) <= 2
        /\ \A a \in {calls[i].arg.action : i \in {j \in DOMAIN calls : IsSsar(calls[j])}} :
             Cardinality(ReviewsOf(a)) <= 2)
  /\ [][pc \notin {"idle", "done", "rejected"} => Len(calls') = Len(calls) + 1]_vars

C13_Witness ==
  /\ rev = "server"
  /\ pc = "done"
  /\ Cardinality(CallsOf("listNamespacedPod(positional)")) = 1
  /\ Cardinality(CallsOf("createNamespacedJob(positional)")) = 1
  /\ Len(calls) = 6

\* the handler has ended: it returned, or its promise was rejected
HandlerEnded == pc \in {"done", "rejected"}

\* a call of the preflight failed because the endpoint was unreachable, its
\* certificate was not trusted, or the credential was refused
PreflightCallFailed(c) ==
  /\ ~IsCreate(c)
  /\ \/ c.out = "throw"
     \/ c.out = "http" /\ c.status \in {401, 403}

\* C14 (as claimed): 200 only after a create call succeeded, 400 only when
\* validateJobParams failed, 503 only when the preflight failed, 500 only
\* for an exception during submission; a preflight failure is never
\* answered 400 or 500.
C14_StatusNamesTheFailure ==
  pc = "done" =>
    /\ res.status \in {200, 400, 500, 503}
    /\ res.status = 200 =>
         \E i \in DOMAIN calls : IsCreate(calls[i]) /\ calls[i].out = "created"
    /\ res.status = 400 => calls = <<>> /\ res.detail \in ValidationMessages
    /\ res.status = 503 => ~CreateIssued
    /\ res.status = 500 => CreateIssued
    /\ (~CreateIssued /\ \E i \in DOMAIN calls : PreflightCallFailed(calls[i]))
         => res.status \notin {400, 500}

\* C15 (as claimed): a handler that has ended has sent a response; in the
\* revision that requires a namespace, a body without a string namespace is
\* answered 400 with the namespace message and no cluster call is made.
C15_EveryRequestAnswered ==
  HandlerEnded =>
    /\ res.status # 0
    /\ rev = "prober" /\ req.namespace.t # "string" =>
         /\ res.status = 400
         /\ res.detail = "namespace-required"
         /\ calls = <<>>

(***************************************************************************)
(* The UI: the slug fetchJobStatus polls with.                             *)
(***************************************************************************)
\* nameSlug of fetchJobStatus (useJobs.ts)
fetchJobStatusSlug(name) == ReplaceWsRuns(ToLowerCase(name))

BackupDatabase ==
  <<"B", "a", "c", "k", "u", "p", " ", "D", "a", "t", "a", "b", "a", "s", "e">>

\* every call of the request returned what the handler was waiting for
AllCallsSucceeded ==
  \A i \in DOMAIN calls :
    /\ calls[i].out \in {"list", "created", "version"}
    /\ calls[i].out = "version" => isVersionSupported(calls[i].arg)

\* C16: a valid request whose cluster calls all succeed is answered 200 with
\* jobName the slug of the request's name ("Backup Database" gives
\* "backup-database"); jobName is the metadata.name of the Job that was
\* created and the slug fetchJobStatus computes for the same name; the create
\* call is the last call of the request (the handler waits for no pod).
C16_JobNameIsSlugOfCreatedJob ==
  /\ pc = "done" /\ calls # <<>> /\ AllCallsSucceeded => res.status = 200
  /\ res.status = 200 =>
       /\ res.detail.jobName = nameSlug(req.name.s)
       /\ res.detail.jobName = fetchJobStatusSlug(req.name.s)
       /\ IsCreate(calls[Len(calls)])
       /\ calls[Len(calls)].out = "created"
       /\ calls[Len(calls)].arg.name = res.detail.jobName
       /\ \E j \in jobs : j.name = res.detail.jobName
  /\ nameSlug(BackupDatabase) =
       <<"b", "a", "c", "k", "u", "p", "-", "d", "a", "t", "a", "b", "a", "s", "e">>

C16_Witness ==
  /\ res.status = 200
  /\ req.name = GoodName
  /\ res.detail.jobName = <<"b", "-", "d">>
  /\ [namespace |-> req.namespace.s, name |-> <<"b", "-", "d">>] \in jobs

\* C19: every Job manifest passed to a create call has restartPolicy
\* 'Never', backoffLimit 1, the label app.kubernetes.io/managed-by =
\* 'jobshot' and the annotation jobshot/originalName equal to the name of
\* the request as it was received.
C19_ManifestFixedFields ==
  \A i \in DOMAIN calls :
    IsCreate(calls[i]) =>
      /\ calls[i].arg.restartPolicy = "Never"
      /\ calls[i].arg.backoffLimit = 1
      /\ calls[i].arg.managedBy = "jobshot"
      /\ calls[i].arg.originalName = req.name.s

C19_Witness ==
  /\ \E i \in DOMAIN calls :
       /\ IsCreate(calls[i])
       /\ calls[i].arg.originalName = <<"B", " ", "d">>
       /\ calls[i].arg.name = <<"b", "-", "d">>
       /\ calls[i].arg.restartPolicy = "Never"
  /\ rev = "server"

(***************************************************************************)
(* The browser: App.tsx, JobRunModal.tsx (two revisions) and useJobs.ts.   *)
(* Strings are sequences of characters, string[] sequences of strings.     *)
(***************************************************************************)
MaxEdits == 2   \* edits of the form fields per opening of the modal

\* value.split('\n')
RECURSIVE SplitLines(_)
SplitLines(value) ==
  IF \E k \in 1..Len(value) : value[k] = "\n"
  THEN LET k == CHOOSE i \in 1..Len(value) :
                  value[i] = "\n" /\ \A j \in 1..(i - 1) : value[j] # "\n"
       IN <<SubSeq(value, 1, k - 1)>> \o SplitLines(SubSeq(value, k + 1, Len(value)))
  ELSE <<value>>

\* l => l.trim() mapped over the lines
TrimEach(lines) == [i \in 1..Len(lines) |-> Trim(lines[i])]

\* Boolean(l) of a string
NonEmpty(l) == l # <<>>

\* stringToParams
stringToParams(value) == SelectSeq(TrimEach(SplitLines(value)), NonEmpty)

\* params.join('\n')
RECURSIVE paramsToString(_)
paramsToString(params) ==
  IF params = <<>> THEN <<>>
  ELSE IF Len(params) = 1 THEN params[1]
  ELSE params[1] \o <<"\n">> \o paramsToString(Tail(params))

DEFAULT_RESOURCES ==
  [requests |-> [cpu |-> <<"2", "5", "0", "m">>, memory |-> <<"6", "4", "M", "i">>],
   limits |-> [cpu |-> <<"5", "0", "0", "m">>, memory |-> <<"1", "2", "8", "M", "i">>]]

\* an optional value: <<>> when absent, <<v>> when present
Absent == <<>>
Present(v) == <<v>>

\* the jobs of the catalog (/api/jobs): namespace and resources are optional
CatalogJobs ==
  {[name |-> GoodName.s, namespace |-> ns, container |-> GoodImage.s,
    entrypoint |-> << <<"s">> >>, parameters |-> << <<"x">> >>, resources |-> r] :
     ns \in {Absent, Present(GoodNamespace.s)},
     r \in {Absent, Present([requests |-> [cpu |-> <<"1">>, memory |-> <<"1", "G", "i">>],
                             limits |-> [cpu |-> <<"2">>, memory |-> <<"2", "G", "i">>]])}}

\* what the user types
ContainerInputs == {<<" ", "k">>, <<" ">>}
ParametersInputs == {<<"y", "\n", " ", "z", " ", "\n">>}
ResourceInputs == {<<" ", "3">>}
BlankInputs == {<<" ">>}

\* `a || b` of two strings
OrElse(a, b) == IF a # <<>> THEN a ELSE b

\* the useState initialisers of JobRunModal
InitialModal(variant, job) ==
  [variant |-> variant, activeJob |-> Present(job),
   container |-> job.container,
   parametersText |-> paramsToString(job.parameters),
   reqCpu |-> IF variant = "resources"
              THEN IF job.resources = Absent THEN DEFAULT_RESOURCES.requests.cpu
                   ELSE OrElse(job.resources[1].requests.cpu, DEFAULT_RESOURCES.requests.cpu)
              ELSE <<>>,
   reqMem |-> IF variant = "resources"
              THEN IF job.resources = Absent THEN DEFAULT_RESOURCES.requests.memory
                   ELSE OrElse(job.resources[1].requests.memory,
                               DEFAULT_RESOURCES.requests.memory)
              ELSE <<>>,
   limCpu |-> IF variant = "resources"
              THEN IF job.resources = Absent THEN DEFAULT_RESOURCES.limits.cpu
                   ELSE OrElse(job.resources[1].limits.cpu, DEFAULT_RESOURCES.limits.cpu)
              ELSE <<>>,
   limMem |-> IF variant = "resources"
              THEN IF job.resources = Absent THEN DEFAULT_RESOURCES.limits.memory
                   ELSE OrElse(job.resources[1].limits.memory, DEFAULT_RESOURCES.limits.memory)
              ELSE <<>>,
   error |-> NONE, edits |-> 0, sent |-> 0, polled |-> ui.polled]

Backend == <<rev, env, jobs, pc, req, kc, baseIdx, lastNetworkErr, primary, podListResult,
             rbac, calls, res, parked>>

\* the user works on the form between requests: the model does not
\* interleave form events with the steps of a request in flight
Quiet == pc = "idle"

ModalOpen == ui.activeJob # Absent

\* the catalog job the modal was opened for
ActiveJob == ui.activeJob[1]

\* App.openRunModal: the Run button of a catalog job mounts the modal
openRunModal ==
  /\ ~ModalOpen
  /\ Quiet
  /\ \E job \in CatalogJobs : ui' = InitialModal(ui.variant, job)
  /\ UNCHANGED <<Backend, hook>>

\* the form after an onChange of one field
Edited(field, v) == [ui EXCEPT ![field] = v, !.edits = @ + 1]

CanEdit == ModalOpen /\ Quiet /\ ui.edits < MaxEdits

setContainer ==
  /\ CanEdit
  /\ \E v \in ContainerInputs : ui' = Edited("container", v)
  /\ UNCHANGED <<Backend, hook>>

setParametersText ==
  /\ CanEdit
  /\ \E v \in ParametersInputs : ui' = Edited("parametersText", v)
  /\ UNCHANGED <<Backend, hook>>

setReqCpu ==
  /\ CanEdit /\ ui.variant = "resources"
  /\ \E v \in ResourceInputs \cup BlankInputs : ui' = Edited("reqCpu", v)
  /\ UNCHANGED <<Backend, hook>>

setReqMem ==
  /\ CanEdit /\ ui.variant = "resources"
  /\ \E v \in ResourceInputs : ui' = Edited("reqMem", v)
  /\ UNCHANGED <<Backend, hook>>

setLimCpu ==
  /\ CanEdit /\ ui.variant = "resources"
  /\ \E v \in ResourceInputs : ui' = Edited("limCpu", v)
  /\ UNCHANGED <<Backend, hook>>

setLimMem ==
  /\ CanEdit /\ ui.variant = "resources"
  /\ \E v \in ResourceInputs : ui' = Edited("limMem", v)
  /\ UNCHANGED <<Backend, hook>>

\* handleResetDefaults: container and parameters back to the catalog job's,
\* the resource fields (second revision) to DEFAULT_RESOURCES
handleResetDefaults ==
  /\ CanEdit
  /\ ui' = IF ui.variant = "resources"
           THEN [ui EXCEPT !.container = ActiveJob.container,
                           !.parametersText = paramsToString(ActiveJob.parameters),
                           !.reqCpu = DEFAULT_RESOURCES.requests.cpu,
                           !.reqMem = DEFAULT_RESOURCES.requests.memory,
                           !.limCpu = DEFAULT_RESOURCES.limits.cpu,
                           !.limMem = DEFAULT_RESOURCES.limits.memory,
                           !.error = NONE, !.edits = @ + 1]
           ELSE [ui EXCEPT !.container = ActiveJob.container,
                           !.parametersText = paramsToString(ActiveJob.parameters),
                           !.error = NONE, !.edits = @ + 1]
  /\ UNCHANGED <<Backend, hook>>

\* onClose: Cancel, the close button or Escape
onClose ==
  /\ ModalOpen
  /\ Quiet
  /\ ui' = [NoUi(ui.variant) EXCEPT !.polled = ui.polled]
  /\ UNCHANGED <<Backend, hook>>

\* the resources object handleSubmit of the second revision builds
SubmittedResources ==
  [requests |-> [cpu |-> Trim(ui.reqCpu), memory |-> Trim(ui.reqMem)],
   limits |-> [cpu |-> Trim(ui.limCpu), memory |-> Trim(ui.limMem)]]

\* JSON.stringify(updated) as the server's bodyParser reads it: namespace is
\* absent when the catalog job has none; resources is a key of the body only
\* in the second revision of the modal
SubmittedBody ==
  LET job == ActiveJob
      body == [name |-> Str(job.name),
               namespace |-> IF job.namespace = Absent THEN Undef ELSE Str(job.namespace[1]),
               container |-> Str(Trim(ui.container)),
               parameters |-> Arr(stringToParams(ui.parametersText)),
               entrypoint |-> Arr(job.entrypoint)]
  IN IF ui.variant = "resources"
     THEN [k \in DOMAIN body \cup {"resources"} |->
             IF k = "resources" THEN SubmittedResources ELSE body[k]]
     ELSE body

\* handleSubmit, and on success onRun -> App.handleRun -> runJob -> POST
\* /api/run-job, up to the first await of the server's handler.  The model's
\* server handles one request at a time.
handleSubmit ==
  /\ ModalOpen
  /\ Quiet
  /\ IF Trim(ui.container) = <<>>
     THEN /\ ui' = [ui EXCEPT !.error = "Container image cannot be empty."]
          /\ UNCHANGED <<Backend, hook>>
     ELSE IF /\ ui.variant = "resources"
             /\ \E v \in {ui.reqCpu, ui.reqMem, ui.limCpu, ui.limMem} : Trim(v) = <<>>
     THEN /\ ui' = [ui EXCEPT !.error = "All resource fields must be provided."]
          /\ UNCHANGED <<Backend, hook>>
     ELSE ReceiveS(SubmittedBody) \/ ReceiveP(SubmittedBody)

\* App.handleRun after runJob returned: setActiveJob(null)
handleRunReturned ==
  /\ ModalOpen
  /\ pc = "done"
  /\ ui' = [NoUi(ui.variant) EXCEPT !.polled = ui.polled]
  /\ UNCHANGED <<Backend, hook>>

\* useJobs.fetchJobStatus: the status request for the job the browser holds
fetchJobStatus ==
  /\ ModalOpen
  /\ LET job == ActiveJob IN
       ui' = [ui EXCEPT !.polled =
                Present([name |-> fetchJobStatusSlug(job.name),
                         namespace |-> IF job.namespace = Absent THEN DefaultNamespace.s
                                       ELSE OrElse(job.namespace[1], DefaultNamespace.s)])]
  /\ UNCHANGED <<Backend, hook>>

\* a deployment whose configuration passes the checks of its revision
UiEnv(r) ==
  IF r = "server"
  THEN [VITE_K8S_API |-> API_EXT, VITE_K8S_TOKEN |-> TOKEN_EXT,
        KUBERNETES_SERVICE_HOST |-> NONE, KUBERNETES_SERVICE_PORT |-> NONE,
        USE_INCLUSTER_API |-> NONE, SKIP_K8S_TLS_VERIFY |-> NONE,
        ALLOW_TLS_FALLBACK |-> NONE, saToken |-> NONE, saCa |-> FALSE]
  ELSE [VITE_K8S_API |-> NONE, VITE_K8S_TOKEN |-> NONE,
        KUBERNETES_SERVICE_HOST |-> "10.0.0.1", KUBERNETES_SERVICE_PORT |-> "443",
        USE_INCLUSTER_API |-> NONE, SKIP_K8S_TLS_VERIFY |-> NONE,
        ALLOW_TLS_FALLBACK |-> NONE, saToken |-> TOKEN_SA, saCa |-> TRUE]

UiInit ==
  /\ rev \in {"server", "prober"}
  /\ env = UiEnv(rev)
  /\ jobs = {}
  /\ pc = "idle"
  /\ req = NoBody
  /\ kc = NoKc
  /\ baseIdx = 0
  /\ lastNetworkErr = NONE
  /\ primary = NoResult
  /\ podListResult = NoResult
  /\ rbac = <<>>
  /\ calls = <<>>
  /\ res = NoRes
  /\ parked = NoHandler
  /\ hook = NoHook
  /\ \E variant \in {"plain", "resources"} : ui = NoUi(variant)

UiNext ==
  \/ openRunModal
  \/ setContainer
  \/ setParametersText
  \/ setReqCpu
  \/ setReqMem
  \/ setLimCpu
  \/ setLimMem
  \/ handleResetDefaults
  \/ onClose
  \/ handleSubmit
  \/ handleRunReturned
  \/ GetVersion
  \/ ListNamespace
  \/ ListPodsObject
  \/ ListPodsPositional
  \/ CreateObject
  \/ CreatePositional
  \/ RawFetch
  \/ SsarFetch
  \/ ClientListPods
  \/ CreateJobP
  \/ Finish

UiSpec == UiInit /\ [][UiNext]_vars

\* C17: whatever was edited in the run modal before Run, every create call
\* of the request carries as command the entrypoint of the catalog job, as
\* args the parameters the form held (one per non-blank line, trimmed) and as
\* image the trimmed container of the form; the submitted name and namespace
\* are the catalog job's.
C17_RunKeepsEntrypoint ==
  pc # "idle" /\ ModalOpen =>
    /\ req.name = Str(ActiveJob.name)
    /\ req.namespace =
         IF ActiveJob.namespace = Absent THEN Undef ELSE Str(ActiveJob.namespace[1])
    /\ \A i \in DOMAIN calls :
         IsCreate(calls[i]) =>
           /\ calls[i].arg.command = Arr(ActiveJob.entrypoint)
           /\ calls[i].arg.args = req.parameters
           /\ calls[i].arg.args = Arr(stringToParams(ui.parametersText))
           /\ calls[i].arg.image = req.container
           /\ calls[i].arg.image = Str(Trim(ui.container))

C17_Witness ==
  /\ ModalOpen
  /\ res.status = 200
  /\ ui.edits = 2
  /\ ui.container = <<" ", "k">>
  /\ calls[Len(calls)].arg.image = Str(<<"k">>)
  /\ calls[Len(calls)].arg.args = Arr(<< <<"y">>, <<"z">> >>)
  /\ calls[Len(calls)].arg.command = Arr(<< <<"s">> >>)
  /\ ActiveJob.parameters = << <<"x">> >>

\* the body of the request carries resources
HasResources(job) == "resources" \in DOMAIN job

\* C20 (as claimed): when the submitted job carries resources the manifest
\* of the create call contains those requests and limits; when it carries
\* none the manifest has no resources field.
C20_ResourcesPassThrough ==
  \A i \in DOMAIN calls :
    IsCreate(calls[i]) =>
      IF HasResources(req)
      THEN /\ "resources" \in DOMAIN calls[i].arg
           /\ calls[i].arg.resources = req.resources
      ELSE "resources" \notin DOMAIN calls[i].arg

(***************************************************************************)
(* The slug as a function of the display name: runK8sJob and               *)
(* fetchJobStatus applied to names over a small alphabet, blank and        *)
(* whitespace-framed names included.                                       *)
(***************************************************************************)
MaxNameLen == 4      \* length of the display names
MaxOtherLen == 3     \* length of the names a display name is compared with

SlugAlphabet == {"B", "b", " ", "\t"}

SlugNames(n) == UNION {[1..k -> SlugAlphabet] : k \in 0..n}

\* the browser holding the catalog job of that name
SlugJob(name) ==
  [name |-> name, namespace |-> Absent, container |-> GoodImage.s,
   entrypoint |-> << <<"s">> >>, parameters |-> <<>>, resources |-> Absent]

SlugInit ==
  /\ rev \in {"server", "prober"}
  /\ env = UiEnv(rev)
  /\ jobs = {}
  /\ pc = "idle"
  /\ \E name \in SlugNames(MaxNameLen) :
       /\ req = [NoBody EXCEPT !.name = Str(name)]
       /\ ui = [NoUi("plain") EXCEPT !.activeJob = Present(SlugJob(name))]
  /\ kc = NoKc
  /\ baseIdx = 0
  /\ lastNetworkErr = NONE
  /\ primary = NoResult
  /\ podListResult = NoResult
  /\ rbac = <<>>
  /\ calls = <<>>
  /\ res = NoRes
  /\ parked = NoHandler
  /\ hook = NoHook

\* runK8sJob taken alone: the manifest for job, the create call and the
\* jobName it returns
runK8sJob ==
  /\ pc = "idle"
  /\ LET manifest == k8sJob(req) IN
       /\ calls' = <<ClientCall("createNamespacedJob", "created", manifest)>>
       /\ Respond(200, "started", [jobName |-> manifest.name, namespace |-> req.namespace])
  /\ UNCHANGED <<parked, hook, ui, rev, env, jobs, req, kc, Locals>>

SlugNext == runK8sJob \/ fetchJobStatus

SlugSpec == SlugInit /\ [][SlugNext]_vars

\* two names differ only in letter case or in the length of whitespace runs
RECURSIVE Similar(_, _)
Similar(a, b) ==
  IF a = <<>> \/ b = <<>> THEN a = b
  ELSE IF IsWs(Head(a)) \/ IsWs(Head(b))
  THEN IsWs(Head(a)) /\ IsWs(Head(b)) /\ Similar(TrimStart(a), TrimStart(b))
  ELSE LowerChar(Head(a)) = LowerChar(Head(b)) /\ Similar(Tail(a), Tail(b))

\* the positions at which a maximal whitespace run of a name starts
WsRunStarts(name) ==
  {i \in 1..Len(name) : IsWs(name[i]) /\ (i = 1 \/ ~IsWs(name[i - 1]))}

IsHyphen(c) == c = "-"
IsNotHyphen(c) == c # "-"
IsNotWs(c) == ~IsWs(c)

\* C18: the slug of a display name has no whitespace and no uppercase
\* letter; it is the name's non-whitespace characters lowercased, in order,
\* with one hyphen per maximal whitespace run; names that differ only in
\* case or in the length of whitespace runs have the same slug; runK8sJob and
\* fetchJobStatus compute the same slug from the same name.
C18_SlugLowercaseOneHyphenPerRun ==
  LET name == ui.activeJob[1].name
      slug == nameSlug(name)
  IN /\ \A i \in 1..Len(slug) : ~IsWs(slug[i]) /\ slug[i] # "B"
     /\ SelectSeq(slug, IsNotHyphen) = ToLowerCase(SelectSeq(name, IsNotWs))
     /\ Len(SelectSeq(slug, IsHyphen)) = Cardinality(WsRunStarts(name))
     /\ \A i \in 1..Len(slug) :
          slug[i] = "-" => (i = 1 \/ slug[i - 1] # "-")
     /\ \A other \in SlugNames(MaxOtherLen) :
          Similar(name, other) =>
            nameSlug(other) = slug /\ fetchJobStatusSlug(other) = slug
     /\ calls # <<>> => calls[1].arg.name = slug /\ res.detail.jobName = slug
     /\ ui.polled # Absent => ui.polled[1].name = slug

C18_Witness ==
  /\ ui.activeJob = Present(SlugJob(<<"B", " ", "\t", "b">>))
  /\ calls # <<>>
  /\ res.detail.jobName = <<"b", "-", "b">>
  /\ nameSlug(<<"b", " ", "B">>) = res.detail.jobName
  /\ ui.polled # Absent
  /\ ui.polled[1].name = <<"b", "-", "b">>


(***************************************************************************)
(* Resubmission of a job whose Job object exists.                          *)
(***************************************************************************)
\* the cluster answered "already exists" to a create call of the request,
\* and every create call of the request either got that answer or was
\* refused by the client library before it was sent
DuplicateRejectedByCluster ==
  /\ \E i \in CreateCalls : calls[i].out = "conflict"
  /\ \A i \in CreateCalls : calls[i].out \in {"conflict", "required-parameter"}

\* C21: a run-job request whose Job object already exists in the namespace
\* (the cluster answers "already exists" to its create) is answered with a
\* status other than 200 whose body carries the cluster's "already exists"
\* detail, and the set of Job objects is as before.
C21_DuplicateAnswerCarriesConflict ==
  (pc = "done" /\ DuplicateRejectedByCluster) =>
    /\ res.status # 200
    /\ res.detail = "conflict"
    /\ \E key \in jobs : key.name = k8sJob(req).name


(***************************************************************************)
(* Two run-job requests in flight.  Node runs one continuation at a time:  *)
(* the handler in pc..res is the one whose continuation runs next, the     *)
(* other one waits in `parked` for the answer to its cluster call.  The    *)
(* handlers of src/server.js keep all they hold in locals, so the two      *)
(* records share nothing but process.env and the cluster.                  *)
(***************************************************************************)
\* the locals of the handler whose continuation runs next
Running ==
  [pc |-> pc, req |-> req, kc |-> kc, baseIdx |-> baseIdx,
   lastNetworkErr |-> lastNetworkErr, primary |-> primary,
   podListResult |-> podListResult, rbac |-> rbac, calls |-> calls, res |-> res]

\* the event loop resumes the other handler
Switch ==
  /\ pc # "idle" \/ parked.pc # "idle"
  /\ parked' = Running
  /\ pc' = parked.pc
  /\ req' = parked.req
  /\ kc' = parked.kc
  /\ baseIdx' = parked.baseIdx
  /\ lastNetworkErr' = parked.lastNetworkErr
  /\ primary' = parked.primary
  /\ podListResult' = parked.podListResult
  /\ rbac' = parked.rbac
  /\ calls' = parked.calls
  /\ res' = parked.res
  /\ UNCHANGED <<hook, ui, rev, env, jobs>>

\* two display names of one slug, in one namespace
ConcurrentBodies ==
  [name : {GoodName, Str(<<"b", " ", "d">>)}, container : {GoodImage},
   parameters : {Arr(<< <<"x">> >>)}, entrypoint : {Arr(<< <<"s">> >>)},
   namespace : {GoodNamespace}]

ReceiveConcurrent == \E body \in ConcurrentBodies : ReceiveS(body)

ConcurrentInit ==
  /\ rev = "server"
  /\ env = UiEnv(rev)
  /\ jobs = {}
  /\ pc = "idle"
  /\ req = NoBody
  /\ kc = NoKc
  /\ baseIdx = 0
  /\ lastNetworkErr = NONE
  /\ primary = NoResult
  /\ podListResult = NoResult
  /\ rbac = <<>>
  /\ calls = <<>>
  /\ res = NoRes
  /\ parked = NoHandler
  /\ hook = NoHook
  /\ ui = NoUi("plain")

ConcurrentNext ==
  \/ ReceiveConcurrent
  \/ GetVersion
  \/ ListNamespace
  \/ ListPodsObject
  \/ ListPodsPositional
  \/ CreateObject
  \/ CreatePositional
  \/ Finish
  \/ Switch

ConcurrentSpec == ConcurrentInit /\ [][ConcurrentNext]_vars

\* the two handlers have answered requests of one slug and namespace
BothAnswered ==
  /\ pc = "done"
  /\ parked.pc = "done"
  /\ nameSlug(req.name.s) = nameSlug(parked.req.name.s)
  /\ namespaceOf(req) = namespaceOf(parked.req)

\* the create calls of a handler that the cluster answered by creating
CreatedBy(log) == {i \in DOMAIN log : IsCreate(log[i]) /\ log[i].out = "created"}

\* the Job object the request names
RequestedJob == [namespace |-> Trim(namespaceOf(req).s), name |-> nameSlug(req.name.s)]

TOKEN_NEXT == "token-rotated"            \* a token issued after the start

RotatedEnvs(e) ==
  {[e EXCEPT !.VITE_K8S_API = api, !.VITE_K8S_TOKEN = token, !.saToken = sa] :
     api \in {NONE, API_EXT, API_IN},
     token \in {NONE, TOKEN_EXT, TOKEN_NEXT},
     sa \in IF rev = "server" THEN {NONE} ELSE {NONE, TOKEN_SA, TOKEN_NEXT}}

\* the configuration changes while no request is being handled
RotateCredentials ==
  /\ pc = "idle"
  /\ env' \in RotatedEnvs(env) \ {env}
  /\ UNCHANGED <<parked, hook, ui, rev, jobs, pc, req, kc, Locals, calls, res>>

RotateInit == UiInit /\ ui = NoUi("plain")

RotateNext == Next \/ RotateCredentials

RotateSpec == RotateInit /\ [][RotateNext]_vars

\* the client the current configuration gives: the explicit endpoint and
\* token, or (prober revision, one of the two not set) the in-cluster ones
CurrentClient ==
  IF rev = "server" \/ (EnvTruthy(env.VITE_K8S_API) /\ EnvTruthy(env.VITE_K8S_TOKEN))
  THEN [server |-> env.VITE_K8S_API, token |-> env.VITE_K8S_TOKEN, skipTLSVerify |-> TRUE]
  ELSE [server |-> buildInClusterBaseURL(env), token |-> readServiceAccountToken(env),
        skipTLSVerify |-> FALSE]

\* C23: the credential and the endpoint are resolved anew for every
\* request: whatever VITE_K8S_API, VITE_K8S_TOKEN and the mounted token were
\* during earlier requests, every cluster call of the request being handled
\* carries the values of the current configuration, and the client object of
\* the request is built from them; no client outlives its request.
C23_CallsUseCurrentCredential ==
  /\ kc \in {NoKc, CurrentClient}
  /\ pc = "idle" => kc = NoKc
  /\ \A i \in DOMAIN calls :
       IF IsDirect(calls[i])
       THEN /\ calls[i].auth = directAuthorization(env)
            /\ calls[i].base \in {env.VITE_K8S_API, buildInClusterBaseURL(env)}
       ELSE /\ calls[i].auth = CurrentClient.token
            /\ calls[i].base = CurrentClient.server

\* a Job exists from an earlier request, and every call of the request just
\* answered carried the token that was put in place after the start
C23_Witness ==
  /\ pc = "done"
  /\ jobs # {}
  /\ Len(calls) >= 2
  /\ \A i \in DOMAIN calls : calls[i].auth = TOKEN_NEXT /\ calls[i].out # "created"


(***************************************************************************)
(* The choice between the explicit and the in-cluster configuration.       *)
(***************************************************************************)
\* both VITE_K8S_API and VITE_K8S_TOKEN are set and non-empty
BothSet(e) == EnvTruthy(e.VITE_K8S_API) /\ EnvTruthy(e.VITE_K8S_TOKEN)

\* the client of KubeConfig.loadFromCluster()
InClusterClient(e) ==
  [server |-> buildInClusterBaseURL(e), token |-> readServiceAccountToken(e),
   skipTLSVerify |-> FALSE]

\* C24: the client of a request is the explicit one (VITE_K8S_API with
\* VITE_K8S_TOKEN) exactly when both variables are set and non-empty, and the
\* in-cluster one otherwise; a request with a valid job that arrives when
\* neither variable is set is not rejected by validation and is served with
\* the in-cluster client.
C24_InClusterWhenNotBothSet ==
  (pc # "idle" /\ ~BadJob(req) /\ req.namespace = GoodNamespace) =>
    IF BothSet(env) /\ IsValidURL(env.VITE_K8S_API)
    THEN kc = [server |-> env.VITE_K8S_API, token |-> env.VITE_K8S_TOKEN,
               skipTLSVerify |-> TRUE]
    ELSE (~EnvTruthy(env.VITE_K8S_API) /\ ~EnvTruthy(env.VITE_K8S_TOKEN)) =>
           /\ res.kind # "validation"
           /\ kc = InClusterClient(env)


(***************************************************************************)
(* What the handler writes to the console.  A line is the statement that   *)
(* wrote it and, of its arguments, the values that come from the           *)
(* configuration or from a cluster call.  The lines written so far follow   *)
(* from the request and the log of its calls.                              *)
(***************************************************************************)
\* the bearer tokens of the configuration
Secrets(e) == {e.VITE_K8S_TOKEN, readServiceAccountToken(e)} \ {NONE, ""}

\* what console.error prints of the object the structured client threw for
\* call c.  The source does not fix the release of @kubernetes/client-node
\* (server.js allows for both, "client style variance"): for an HTTP failure
\* the request-based releases throw an HttpError holding the response and,
\* through it, the request that was sent with its Authorization header; the
\* fetch-based releases throw an exception holding status, body and
\* response headers.  An error raised before a request is sent holds its
\* message only.
thrownError(c) ==
  IF c.out \in {"throw", "unanswered", "forbidden", "conflict"}
  THEN {{c.out}, {c.out, c.auth}}
  ELSE {{c.out}}

\* the diagnostic lines at the start of the handler (either revision)
handlerLines ==
  IF pc = "idle" THEN {}
  ELSE {[site |-> "Cluster address (apiServer):", shows |-> {env.VITE_K8S_API}],
        [site |-> "Token:",
         shows |-> {IF EnvTruthy(env.VITE_K8S_TOKEN) THEN "[REDACTED]" ELSE "undefined"}]}

\* the lines call i of the request gave rise to
callLines(i) ==
  LET c == calls[i]
      ended == i = Len(calls) /\ pc = "done" /\ res.kind = "exception"
  IN CASE IsDirect(c) ->
            {[site |-> "[preflight] rawListPods", shows |-> {c.base, c.txt, c.code}]}
       [] c.op = "getCode" /\ c.out = "throw" ->
            {[site |-> "Failed to retrieve cluster version", shows |-> {c.out}]}
       [] c.op = "listNamespace" /\ c.out = "throw" ->
            {[site |-> "Kubernetes connectivity error:", shows |-> e] : e \in thrownError(c)}
       [] c.op \in {"listNamespacedPod(object)", "listNamespacedPod(positional)"}
            /\ c.out \notin {"list", "nolist"} ->
            {[site |-> "Could not list pods in namespace", shows |-> {c.out}]}
       [] IsCreate(c) /\ ended /\ rev = "server" ->
            {[site |-> "Job start error:", shows |-> e] : e \in thrownError(c)}
       [] IsCreate(c) /\ ended /\ rev = "prober" ->
            {[site |-> "Job start error:", shows |-> {c.out}]}
       [] OTHER -> {}

\* every line the handler can have written for the request so far
consoleLines == handlerLines \cup UNION {callLines(i) : i \in DOMAIN calls}

\* C25: the value of a bearer token occurs in no line the handler writes to
\* the console and in no response body; the lines and the response show of
\* the token only whether one is set.
C25_TokenNeverInLogOrResponse ==
  /\ \A l \in consoleLines : l.shows \cap Secrets(env) = {}
  /\ res.kind \in {"validation", "exception", "connError", "framework"} =>
       res.detail \notin Secrets(env)


(***************************************************************************)
(* The Role of the README: create/get/list/watch on jobs and               *)
(* get/list/watch on pods, in one namespace.                               *)
(***************************************************************************)
\* the requests a credential bound to that Role only may make: those of the
\* Role, and what the cluster grants every authenticated caller (the
\* version endpoint and reviews of its own access)
roleAllows(r) ==
  r \in {[verb |-> "POST", resource |-> "jobs"], [verb |-> "GET", resource |-> "jobs"],
         [verb |-> "GET", resource |-> "pods"], [verb |-> "GET", resource |-> "version"],
         [verb |-> "POST", resource |-> "selfsubjectaccessreviews"]}

\* a reachable, supported cluster answered call c as that Role prescribes:
\* it served the request if the Role allows it and refused it (403) if not
AnsweredPerRole(c) ==
  IF roleAllows(requestOf(c))
  THEN /\ c.out \in {"list", "created", "version", "json"}
       /\ c.out = "version" => isVersionSupported(c.arg)
       /\ c.out = "json" => c.status = 201
  ELSE \/ ~IsDirect(c) /\ c.out \in {"throw", "forbidden"}
       \/ IsDirect(c) /\ c.out = "http" /\ c.status = 403

\* C26: with a credential that holds the namespace-scoped Role of the README
\* and nothing cluster-scoped, on a reachable supported cluster, a valid
\* run-job request passes the preflight and is answered 200.
C26_NamespacedRoleSuffices ==
  (/\ pc = "done"
   /\ calls # <<>>
   /\ ~BadJob(req)
   /\ req.namespace = GoodNamespace
   /\ \A i \in DOMAIN calls : AnsweredPerRole(calls[i]))
  => res.status = 200


(***************************************************************************)
(* The browser: useJobs (src/src/useJobs.ts).  `hook` holds the state of   *)
(* the hook and what it has in flight:                                     *)
(*   loading   the state `loading`                                         *)
(*   jobs      the state `jobs` without the status field of its elements   *)
(*   statuses  jobs[j].status for the jobs of the state `jobs`             *)
(*   interval  intervalRef.current holds a running 5-second interval       *)
(*   runTimer  a one-second timer of runJob is pending                     *)
(*   batches   the invocations of updateJobStatuses that wait in           *)
(*             Promise.all: per job the answer to its status request,      *)
(*             Absent while the request is in flight                       *)
(*   captured  per invocation in `batches`, its argument currentJobs       *)
(*   superseded  per invocation in `batches`, whether the results of one   *)
(*             that started later have been applied since it started       *)
(*   last      whether the results applied last came from an invocation    *)
(*             that was superseded ("stale") or not ("fresh")              *)
(*   runs      the POST /api/run-job requests of runJob in flight          *)
(*   lastRun   the answer to the run request that ended last, with the     *)
(*             alerts runJob showed for it                                 *)
(*   hung      a job whose status requests are never answered, 0 for none  *)
(***************************************************************************)
MaxInFlight == 2    \* invocations of updateJobStatuses awaiting Promise.all

\* the catalog /api/jobs answers with
PollCatalog ==
  <<[name |-> GoodName.s, namespace |-> Absent],
    [name |-> <<"c">>, namespace |-> Present(GoodNamespace.s)]>>

\* the Express application of src/server.js (the revisions of src/unnamed
\* have the same routes): express.static finds no file for an /api/ path,
\* the two routes are POST /api/run-job and GET /api/jobs, the fallback
\* middleware sends index.html for a path outside /api/ and calls next()
\* for any other, which ends in the 404 of Express's final handler
serve(method, path) ==
  CASE method = "POST" /\ path = <<"api", "run-job">> -> [kind |-> "handler", status |-> 0]
    [] method = "GET" /\ path = <<"api", "jobs">> -> [kind |-> "json", status |-> 200]
    [] path = <<>> \/ path[1] # "api" -> [kind |-> "html", status |-> 200]
    [] OTHER -> [kind |-> "status", status |-> 404]

\* the path of the status request of a job
statusPath(job) == <<"api", "job-status", fetchJobStatusSlug(job.name)>>

\* what fetch('/api/job-status/...') followed by response.json() can meet:
\* the answer of the server, a 200 with a JobStatus in JSON (for which
\* useJobs is written, though no route of the server sends it), or an
\* exception of fetch or of response.json()
StatusAnswers(job) ==
  {serve("GET", statusPath(job)), [kind |-> "json", status |-> 200],
   [kind |-> "throw", status |-> 0]}

\* `HTTP ${response.status}`
httpDetail(status) ==
  CASE status = 404 -> "HTTP 404"
    [] status = 500 -> "HTTP 500"
    [] OTHER -> "HTTP"

\* the JobStatus of lines 18-23 and 28-33
ErrorStatus(detail) ==
  [status |-> "Error", exists |-> FALSE, isRunning |-> FALSE, error |-> Present(detail)]

\* the JobStatus a backend sends for a job it does not know
NotFoundStatus ==
  [status |-> "NotFound", exists |-> FALSE, isRunning |-> FALSE, error |-> Absent]

\* fetchJobStatus that lets an exception of fetch escape
fetchJobStatusRethrows(answer) ==
  CASE answer.kind = "throw" ->
         [settled |-> "rejected", value |-> ErrorStatus("Failed to fetch")]
    [] answer.kind = "json" -> [settled |-> "resolved", value |-> NotFoundStatus]
    [] OTHER -> [settled |-> "resolved", value |-> ErrorStatus(httpDetail(answer.status))]

\* fetchJobStatus: how its promise settles for an answer
fetchJobStatusResolution(answer) ==
  CASE answer.kind = "throw" ->
         [settled |-> "resolved", value |-> ErrorStatus("Failed to fetch")]
    [] answer.kind = "json" -> [settled |-> "resolved", value |-> NotFoundStatus]
    [] OTHER -> [settled |-> "resolved", value |-> ErrorStatus(httpDetail(answer.status))]

\* updateJobStatuses(currentJobs) up to `await Promise.all`: one status
\* request per job; nothing for an empty list
updateJobStatuses(h) ==
  IF h.jobs = <<>> THEN h
  ELSE [h EXCEPT !.batches = Append(@, [j \in DOMAIN h.jobs |-> Absent]),
                 !.captured = Append(@, h.jobs),
                 !.superseded = Append(@, FALSE)]

\* the first effect: loadJobsConfig resolved (with no job when /api/jobs
\* failed), setJobs, setLoading(false); then the second effect: the initial
\* status fetch and the interval
jobsConfigLoadedFrom(catalogs) ==
  /\ hook.loading
  /\ \E catalog \in catalogs :
       hook' = updateJobStatuses(
                 [hook EXCEPT !.loading = FALSE,
                              !.jobs = catalog,
                              !.statuses = [j \in DOMAIN catalog |-> Absent],
                              !.interval = catalog # <<>>])
  /\ UNCHANGED <<Backend, ui>>

jobsConfigLoaded == jobsConfigLoadedFrom({<<>>, PollCatalog})

\* batches without the one at position b
Without(batches, b) ==
  [i \in 1..(Len(batches) - 1) |-> IF i < b THEN batches[i] ELSE batches[i + 1]]

\* the hook without the invocation at position b
Ended(h, b) ==
  [h EXCEPT !.batches = Without(@, b), !.captured = Without(@, b),
            !.superseded = Without(@, b)]

\* an invocation whose Promise.all never settles: it waits for a request
\* that is never answered, and has no effect from then on
NeverSettles(batch) == hook.hung \in DOMAIN batch /\ batch[hook.hung] = Absent

\* a tick of the interval: setJobs(currentJobs => { updateJobStatuses(
\* currentJobs); return currentJobs; }), which leaves the state as it is.
\* The interval goes on ticking while invocations wait: of MaxInFlight
\* of them, the oldest is forgotten if it never settles.
intervalTick ==
  /\ hook.interval
  /\ IF Len(hook.batches) < MaxInFlight
     THEN hook' = updateJobStatuses(hook)
     ELSE /\ NeverSettles(hook.batches[1])
          /\ hook' = updateJobStatuses(Ended(hook, 1))
  /\ UNCHANGED <<Backend, ui>>

\* one status request is answered
statusAnswered ==
  /\ \E b \in DOMAIN hook.batches : \E j \in DOMAIN hook.batches[b] :
       /\ hook.batches[b][j] = Absent
       /\ j # hook.hung
       /\ \E answer \in StatusAnswers(hook.captured[b][j]) :
            hook' = [hook EXCEPT !.batches[b][j] = Present(answer)]
  /\ UNCHANGED <<Backend, ui>>

\* Promise.all of an invocation of updateJobStatuses settles.  Resolved:
\* setJobs(updatedJobs) puts a new array in the state `jobs`, a dependency
\* of the second effect, which therefore runs again: updateJobStatuses(jobs),
\* clearInterval, setInterval.  Rejected: the invocation ends there.
updateJobStatusesResolved ==
  /\ \E b \in DOMAIN hook.batches :
       /\ \A j \in DOMAIN hook.batches[b] : hook.batches[b][j] # Absent
       /\ LET r == [j \in DOMAIN hook.batches[b] |->
                      fetchJobStatusResolution(hook.batches[b][j][1])]
              applied == [hook EXCEPT
                            !.jobs = hook.captured[b],
                            !.statuses = [j \in DOMAIN r |-> Present(r[j].value)],
                            !.superseded = [i \in DOMAIN hook.superseded |->
                                             hook.superseded[i] \/ i < b],
                            !.last = IF hook.superseded[b] THEN "stale" ELSE "fresh"]
          IN IF \E j \in DOMAIN r : r[j].settled = "rejected"
             THEN hook' = Ended(hook, b)
             ELSE hook' = updateJobStatuses(Ended(applied, b))
  /\ UNCHANGED <<Backend, ui>>

\* runJob: POST /api/run-job answered; on a 2xx answer the alert and
\* setTimeout(() => updateJobStatuses(jobs), 1000), else the alert only
runJob ==
  /\ ~hook.loading
  /\ hook.statuses # <<>>
  /\ ~hook.runTimer
  /\ \E ok \in BOOLEAN : hook' = [hook EXCEPT !.runTimer = ok]
  /\ UNCHANGED <<Backend, ui>>

\* the one-second timer of runJob fires
runTimerFires ==
  /\ hook.runTimer
  /\ Len(hook.batches) < MaxInFlight
  /\ hook' = updateJobStatuses([hook EXCEPT !.runTimer = FALSE])
  /\ UNCHANGED <<Backend, ui>>

PollInit ==
  /\ rev = "server"
  /\ env = UiEnv(rev)
  /\ jobs = {}
  /\ pc = "idle"
  /\ req = NoBody
  /\ kc = NoKc
  /\ baseIdx = 0
  /\ lastNetworkErr = NONE
  /\ primary = NoResult
  /\ podListResult = NoResult
  /\ rbac = <<>>
  /\ calls = <<>>
  /\ res = NoRes
  /\ parked = NoHandler
  /\ ui = NoUi("plain")
  /\ \E h \in {0, 1} : hook = [NoHook EXCEPT !.hung = h]

PollNext ==
  \/ jobsConfigLoaded
  \/ intervalTick
  \/ statusAnswered
  \/ updateJobStatusesResolved
  \/ runJob
  \/ runTimerFires

PollSpec == PollInit /\ [][PollNext]_vars

\* timers fire, requests to a server that answers are answered, and a
\* settled promise runs its continuation
PollFairSpec ==
  /\ PollSpec
  /\ WF_vars(jobsConfigLoaded)
  /\ WF_vars(intervalTick)
  /\ WF_vars(statusAnswered)
  /\ WF_vars(updateJobStatusesResolved)
  /\ WF_vars(runTimerFires)


(***************************************************************************)
(* Properties of the status polling.                                       *)
(***************************************************************************)
\* C27: once the catalog is loaded, applying the results of a status batch
\* (setJobs) does not itself start another batch: a step that changes the
\* statuses of the jobs leaves one invocation of updateJobStatuses fewer in
\* flight, so that batches are started by the initial load, by a tick of the
\* interval and by the one-second timer of a successful run only.
C27_ApplyingStartsNoBatch ==
  [][(~hook.loading /\ hook'.statuses # hook.statuses)
       => Len(hook'.batches) < Len(hook.batches)]_vars

\* every status request of batch b has been answered
BatchComplete(b) == \A j \in DOMAIN hook.batches[b] : hook.batches[b][j] # Absent

\* an invocation of updateJobStatuses with nothing answered yet
FreshBatch == [j \in DOMAIN hook.statuses |-> Absent]

\* the step ends the invocation of updateJobStatuses at position b
SettledInStep(b) ==
  hook'.batches \in {Without(hook.batches, b), Append(Without(hook.batches, b), FreshBatch)}

\* the status a job gets for an answer that is not a JobStatus
IsErrorStatus(v) == v.status = "Error" /\ ~v.exists /\ ~v.isRunning /\ v.error # Absent

\* C28: fetchJobStatus never rejects: for a non-2xx answer and for an
\* exception of fetch its promise resolves to {status: 'Error', exists:
\* false, isRunning: false, error: <detail>}; so an invocation of
\* updateJobStatuses whose requests are all answered applies the result of
\* every job, failed or not, and the interval keeps running.
C28_FetchNeverRejects ==
  /\ [](/\ \A b \in DOMAIN hook.batches : \A j \in DOMAIN hook.batches[b] :
             hook.batches[b][j] # Absent =>
               LET a == hook.batches[b][j][1]
                   r == fetchJobStatusResolution(a)
               IN /\ r.settled = "resolved"
                  /\ a.kind # "json" => IsErrorStatus(r.value)
          /\ (~hook.loading /\ hook.statuses # <<>>) => hook.interval)
  /\ [][\A b \in DOMAIN hook.batches :
          (BatchComplete(b) /\ SettledInStep(b)) =>
            \A j \in DOMAIN hook.batches[b] :
              /\ hook'.statuses[j] # Absent
              /\ IF hook.batches[b][j][1].kind = "json"
                 THEN hook'.statuses[j][1] = NotFoundStatus
                 ELSE IsErrorStatus(hook'.statuses[j][1])]_vars

\* the status request of the first job failed with an exception and the
\* result of the second job, of the same batch, is applied with it
C28_Witness ==
  /\ hook.statuses # <<>>
  /\ hook.statuses[1] = Present(ErrorStatus("Failed to fetch"))
  /\ hook.statuses[2] = Present(NotFoundStatus)

\* C29: if the status requests of one job are never answered, the statuses
\* of the other jobs are still eventually applied, by that poll or by a
\* later one.
C29_OthersEventuallyApplied ==
  (hook.hung # 0 /\ ~hook.loading /\ hook.statuses # <<>>)
    ~> (\E j \in DOMAIN hook.statuses : j # hook.hung /\ hook.statuses[j] # Absent)

\* C30: the status request of a job that was never submitted is answered by
\* the server with a 200 and a JobStatus in JSON, and fetchJobStatus yields
\* exists = false, isRunning = false and no error field for it.
C30_UnknownJobHasNoError ==
  \A b \in DOMAIN hook.batches : \A j \in DOMAIN hook.batches[b] :
    (/\ hook.batches[b][j] = Present(serve("GET", statusPath(PollCatalog[j])))
     /\ \A key \in jobs : key.name # fetchJobStatusSlug(PollCatalog[j].name))
    => LET a == hook.batches[b][j][1]
           v == fetchJobStatusResolution(a).value
       IN /\ a = [kind |-> "json", status |-> 200]
          /\ ~v.exists
          /\ ~v.isRunning
          /\ v.error = Absent

(***************************************************************************)
(* The answer of a run-job request and what the request did to the         *)
(* cluster (src/server.js).                                                *)
(***************************************************************************)
\* the create calls of the request that the API server accepted
AcceptedCreates == {i \in DOMAIN calls : IsCreate(calls[i]) /\ Accepted(calls[i].out)}

\* C37: in server.js, a run-job request answered with a status other than
\* 200 created no Job object, and a request answered 200 had exactly one of
\* its create calls accepted by the cluster, whatever the outcome of the
\* first create call of safeCreateJob, a call the API server accepted but
\* whose answer did not reach the client included.
C37_AnswerTellsWhetherCreated ==
  (rev = "server" /\ pc = "done") =>
    /\ res.status # 200 => AcceptedCreates = {}
    /\ res.status = 200 => Cardinality(AcceptedCreates) = 1

(***************************************************************************)
(* The version gate of src/server.js.                                      *)
(***************************************************************************)
\* the version a cluster reports is at least 1.31, reading major and minor
\* as the decimal numbers their digits spell
VersionAtLeastMinimum(info) ==
  LET major == StripNonDigits(info.major)
      minor == StripNonDigits(info.minor)
  IN /\ major # <<>>
     /\ minor # <<>>
     /\ \/ DecimalValue(major) > 1
        \/ DecimalValue(major) = 1 /\ DecimalValue(minor) >= 31

\* the version call of the request returned a version
VersionReported(c) == c.op = "getCode" /\ c.out = "version"

\* C39: in server.js, isVersionSupported is true exactly for a reported
\* version of at least 1.31 (non-digits stripped); after a version call that
\* returned a lower or unparsable version the request makes no further call,
\* creates no Job and is answered 400 'Unsupported Kubernetes version'; a
\* request goes on to the other calls only after a version call that
\* returned a supported version or that failed.
C39_VersionGate ==
  rev = "server" =>
    /\ \A i \in DOMAIN calls :
         VersionReported(calls[i]) =>
           /\ isVersionSupported(calls[i].arg) = VersionAtLeastMinimum(calls[i].arg)
           /\ ~VersionAtLeastMinimum(calls[i].arg) =>
                /\ i = Len(calls)
                /\ pc = "done"
                /\ res.status = 400
                /\ res.detail = "unsupported-version"
    /\ \A i \in DOMAIN calls :
         calls[i].op # "getCode" =>
           /\ calls[1].op = "getCode"
           /\ calls[1].out = "throw" \/ VersionAtLeastMinimum(calls[1].arg)

\* a cluster reporting 1.30+ was refused before any other call
C39_Witness ==
  /\ rev = "server"
  /\ pc = "done"
  /\ Len(calls) = 1
  /\ VersionReported(calls[1])
  /\ calls[1].arg = [major |-> <<"1">>, minor |-> <<"3", "0", "+">>]
  /\ res.detail = "unsupported-version"
  /\ jobs = {}

(***************************************************************************)
(* The namespace of a run-job request (src/server.js): bodies that differ  *)
(* in their namespace only, absent, empty, plain and framed by whitespace. *)
(***************************************************************************)
PaddedNamespace == Str(<<" ", "j">>)

NamespaceBodies ==
  [name : {GoodName}, container : {GoodImage},
   parameters : {Arr(<< <<"x">> >>)}, entrypoint : {Arr(<< <<"s">> >>)},
   namespace : {Undef, Str(<<>>), GoodNamespace, PaddedNamespace}]

ReceiveNamespaced == \E body \in NamespaceBodies : ReceiveS(body)

NamespaceNext ==
  \/ ReceiveNamespaced
  \/ GetVersion
  \/ ListNamespace
  \/ ListPodsObject
  \/ ListPodsPositional
  \/ CreateObject
  \/ CreatePositional
  \/ Finish

NamespaceSpec == ConcurrentInit /\ [][NamespaceNext]_vars

\* C34: in server.js, a run-job request without a namespace that is answered
\* 200 has created its Job in namespace 'default', and the namespace field of
\* every 200 response is the namespace that was passed to the create call,
\* the one the Job of that request lives in.
C34_ResponseNamesJobNamespace ==
  (rev = "server" /\ pc = "done" /\ res.status = 200) =>
    /\ ~Truthy(req.namespace) =>
         JobKey(DefaultNamespace.s, k8sJob(req)) \in jobs
    /\ \E i \in DOMAIN calls :
         /\ IsCreate(calls[i])
         /\ calls[i].out = "created"
         /\ JobKey(res.detail.namespace.s, calls[i].arg) \in jobs

(***************************************************************************)
(* Properties of the run modal.                                            *)
(***************************************************************************)
\* the editable fields of the form
FormFields == {"container", "parametersText", "reqCpu", "reqMem", "limCpu", "limMem"}

\* C32: pressing Reset in the run modal, after any edits, returns every
\* editable field (container, parameters and, in the resources revision,
\* the four resource quantities) to the value the modal showed when it was
\* opened for the job, which is the default of the job's catalog definition,
\* and clears the form error; a second Reset changes nothing.
C32_ResetRestoresOpeningValues ==
  [][handleResetDefaults =>
       /\ \A f \in FormFields : ui'[f] = InitialModal(ui.variant, ActiveJob)[f]
       /\ ui'.error = NONE]_vars

(***************************************************************************)
(* Run without edits: the modal is opened for catalog jobs whose parameter *)
(* lists hold empty strings, blanks, framing whitespace and newlines, and  *)
(* Run is pressed (JobRunModal first revision, src/server.js).             *)
(***************************************************************************)
\* the parameter lists of the catalog
RoundTripParameters ==
  {<<>>,
   << <<"x">> >>,
   << <<"x">>, <<"y">> >>,
   << <<>> >>,
   << <<"x">>, <<>>, <<"y">> >>,
   << <<" ">> >>,
   << <<" ", "x">> >>,
   << <<"x", " ">> >>,
   << <<"x", "\n", "y">> >>}

RoundTripCatalog ==
  {[name |-> GoodName.s, namespace |-> Absent, container |-> GoodImage.s,
    entrypoint |-> << <<"s">> >>, parameters |-> p, resources |-> Absent] :
     p \in RoundTripParameters}

\* App.openRunModal for a job of that catalog
openRunModalOf(catalog) ==
  /\ ~ModalOpen
  /\ Quiet
  /\ \E job \in catalog : ui' = InitialModal(ui.variant, job)
  /\ UNCHANGED <<Backend, hook>>

openRunModalRoundTrip == openRunModalOf(RoundTripCatalog)

RoundTripNext ==
  \/ openRunModalRoundTrip
  \/ handleSubmit
  \/ onClose
  \/ handleRunReturned
  \/ GetVersion
  \/ ListNamespace
  \/ ListPodsObject
  \/ ListPodsPositional
  \/ CreateObject
  \/ CreatePositional
  \/ Finish

RoundTripSpec == ConcurrentInit /\ [][RoundTripNext]_vars

\* C38: opening the run modal and pressing Run without an edit submits the
\* parameters of the catalog job, stringToParams(paramsToString(p)) = p for
\* every parameter list p of the catalog (lists with empty strings, with
\* parameters framed by whitespace or holding a newline included), and the
\* container of the catalog job.
C38_UneditedRunSubmitsCatalogValues ==
  (ModalOpen /\ pc # "idle" /\ ui.edits = 0) =>
    /\ stringToParams(paramsToString(ActiveJob.parameters)) = ActiveJob.parameters
    /\ req.parameters = Arr(ActiveJob.parameters)
    /\ req.container = Str(ActiveJob.container)

(***************************************************************************)
(* Overlapping status batches.                                             *)
(***************************************************************************)
\* C35: when invocations of updateJobStatuses overlap, the statuses in the
\* state are those of the one that started last among the completed ones:
\* the results of an invocation are never applied after the results of an
\* invocation that started later, whatever the order of completion.
C35_OlderBatchNeverOverwrites == hook.last # "stale"

(***************************************************************************)
(* The browser as a whole: App.tsx with useJobs and the run modal.  The    *)
(* backend is what answers the requests: the run request of runJob is      *)
(* answered 2xx, non-2xx with or without a text, or fails.  alert() blocks *)
(* the page, and the continuation of `await runJob(...)` in handleRun runs *)
(* in the same task as the end of runJob.                                  *)
(***************************************************************************)
MaxRuns == 2   \* run requests in flight

\* the catalog /api/jobs answers with, as Job objects
AppCatalog ==
  <<[name |-> GoodName.s, namespace |-> Absent, container |-> GoodImage.s,
     entrypoint |-> << <<"s">> >>, parameters |-> << <<"x">> >>, resources |-> Absent]>>

jobsConfigLoadedApp == jobsConfigLoadedFrom({<<>>, AppCatalog})

\* the Run button of a list item: openRunModal(job) with the job of the
\* state `jobs`
openRunModalListed ==
  /\ ~hook.loading
  /\ openRunModalOf({hook.jobs[i] : i \in DOMAIN hook.jobs})

\* the Job object `updated` that handleSubmit hands to onRun
UpdatedJob ==
  [name |-> ActiveJob.name, namespace |-> ActiveJob.namespace,
   container |-> Trim(ui.container),
   parameters |-> stringToParams(ui.parametersText),
   entrypoint |-> ActiveJob.entrypoint,
   resources |-> IF ui.variant = "resources" THEN Present(SubmittedResources) ELSE Absent]

\* a runJob that keeps the job it ran in the state `jobs`
runJobRequestStoresJob(h, job) ==
  [h EXCEPT !.runs = Append(@, job),
            !.jobs = [i \in DOMAIN h.jobs |->
                        IF h.jobs[i].name = job.name THEN job ELSE h.jobs[i]]]

\* runJob(job) up to `await fetch('/api/run-job', ...)`: the job goes into
\* the body of the request and nowhere else
runJobRequest(h, job) == [h EXCEPT !.runs = Append(@, job)]

\* the Run button of the modal: handleSubmit, and unless the form is
\* refused onRun(updated), which is App.handleRun, up to its await
onRun ==
  /\ ModalOpen
  /\ IF Trim(ui.container) = <<>>
     THEN /\ ui' = [ui EXCEPT !.error = "Container image cannot be empty."]
          /\ hook' = hook
     ELSE IF /\ ui.variant = "resources"
             /\ \E v \in {ui.reqCpu, ui.reqMem, ui.limCpu, ui.limMem} : Trim(v) = <<>>
     THEN /\ ui' = [ui EXCEPT !.error = "All resource fields must be provided."]
          /\ hook' = hook
     ELSE /\ Len(hook.runs) < MaxRuns
          /\ hook' = runJobRequest(hook, UpdatedJob)
          /\ ui' = [ui EXCEPT !.sent = @ + 1]
  /\ UNCHANGED Backend

\* what the run request can meet: the 200 of the handler, an error status
\* with the handler's text, an error status with an empty body (a proxy in
\* front of the server), or an exception of fetch
RunAnswers ==
  {[kind |-> "http", status |-> 200, text |-> "Job started"],
   [kind |-> "http", status |-> 404, text |-> "Failed to start job"],
   [kind |-> "http", status |-> 500, text |-> ""],
   [kind |-> "throw", status |-> 0, text |-> "Failed to fetch"]}

\* response.ok
ResponseOk(answer) == answer.kind = "http" /\ answer.status \in 200..299

\* a runJob that shows the response text whatever it is
runJobAlertsTextOnly(answer) ==
  IF ResponseOk(answer) THEN <<[kind |-> "started", message |-> "started in Kubernetes."]>>
  ELSE <<[kind |-> "failed", message |-> answer.text]>>

\* the alerts of runJob for an answer, in order: lines 96-101 and 104-114
runJobAlerts(answer) ==
  IF answer.kind = "throw"
  THEN <<[kind |-> "failed", message |-> answer.text]>>
  ELSE IF ResponseOk(answer)
  THEN <<[kind |-> "started", message |-> "started in Kubernetes."]>>
  ELSE <<[kind |-> "failed",
          message |-> IF answer.text # "" THEN answer.text ELSE httpDetail(answer.status)]>>

\* a run request is answered: the rest of runJob (the alert, and after a
\* 2xx answer the one-second timer), then the rest of handleRun,
\* setActiveJob(null)
runJobAnswered ==
  /\ \E r \in DOMAIN hook.runs : \E answer \in RunAnswers :
       hook' = [hook EXCEPT
                  !.runs = Without(@, r),
                  !.lastRun = Present([answer |-> answer,
                                       alerts |-> runJobAlerts(answer)]),
                  !.runTimer = @ \/ ResponseOk(answer)]
  /\ ui' = [NoUi(ui.variant) EXCEPT !.polled = ui.polled]
  /\ UNCHANGED Backend

\* the modal and the runs: the page once the catalog is loaded, without
\* the answers to the status requests
RunNext ==
  \/ jobsConfigLoadedApp
  \/ openRunModalListed
  \/ setContainer
  \/ setParametersText
  \/ handleResetDefaults
  \/ onClose
  \/ onRun
  \/ runJobAnswered

RunSpec == ConcurrentInit /\ [][RunNext]_vars

\* the runs together with the status polling; the parameters are what the
\* user edits
AppNext ==
  \/ jobsConfigLoadedApp
  \/ intervalTick
  \/ statusAnswered
  \/ updateJobStatusesResolved
  \/ runTimerFires
  \/ openRunModalListed
  \/ setParametersText
  \/ onClose
  \/ onRun
  \/ runJobAnswered

AppSpec == ConcurrentInit /\ [][AppNext]_vars

(***************************************************************************)
(* Properties of the runs.                                                 *)
(***************************************************************************)
\* the message a failed run is reported with: the text of the response, or
\* 'HTTP <status>' when it is empty, or the message of the network error
FailureMessage(answer) ==
  CASE answer.kind = "throw" -> answer.text
    [] answer.text # "" -> answer.text
    [] OTHER -> httpDetail(answer.status)

\* C31: running a job with edited fields changes neither the job list of
\* useJobs nor the catalog: after any sequence of runs and status polls the
\* jobs of the state (and the jobs an invocation of updateJobStatuses is
\* about to put back) have the container, parameters, entrypoint and
\* namespace of the catalog, no step after the load changes them, and a
\* modal that is opened shows the catalog's values.
C31_RunsLeaveCatalogValues ==
  /\ [](/\ hook.jobs \in {<<>>, AppCatalog}
        /\ \A b \in DOMAIN hook.captured : hook.captured[b] = AppCatalog
        /\ ModalOpen =>
             /\ \E i \in DOMAIN AppCatalog : ActiveJob = AppCatalog[i]
             /\ ui.edits = 0 =>
                  /\ ui.container = ActiveJob.container
                  /\ ui.parametersText = paramsToString(ActiveJob.parameters))
  /\ [][~hook.loading => hook'.jobs = hook.jobs]_vars

\* a run was answered 2xx, a status poll has been applied, a run with edited
\* parameters is in flight, and the modal, opened again, shows the catalog's
\* values
C31_Witness ==
  /\ ModalOpen
  /\ ui.edits = 0
  /\ ui.sent = 0
  /\ ui.parametersText = <<"x">>
  /\ hook.last = "fresh"
  /\ hook.lastRun # Absent
  /\ ResponseOk(hook.lastRun[1].answer)
  /\ Len(hook.runs) = 1
  /\ hook.runs[1].parameters = << <<"y">>, <<"z">> >>
  /\ hook.jobs = AppCatalog

\* C33: every runJob whose request is answered shows exactly one alert, the
\* success alert if and only if the answer is 2xx, otherwise a failure alert
\* with the response text, or 'HTTP <status>' for an empty text, or the
\* message of the network error; runJob does not reject, and handleRun
\* closes the modal when it ends.
C33_OneAlertPerRun ==
  /\ [](hook.lastRun # Absent =>
          LET run == hook.lastRun[1]
          IN /\ Len(run.alerts) = 1
             /\ run.alerts[1].kind \in {"started", "failed"}
             /\ (run.alerts[1].kind = "started") = ResponseOk(run.answer)
             /\ run.alerts[1].kind = "failed" =>
                  run.alerts[1].message = FailureMessage(run.answer))
  /\ [][Len(hook'.runs) < Len(hook.runs) => ui'.activeJob = Absent]_vars

\* a run was answered 500 with an empty body: one failure alert 'HTTP 500',
\* and the modal is closed
C33_Witness ==
  /\ hook.lastRun # Absent
  /\ hook.lastRun[1].answer.status = 500
  /\ hook.lastRun[1].alerts = <<[kind |-> "failed", message |-> "HTTP 500"]>>
  /\ ~ModalOpen
  /\ hook.runs = <<>>

\* C36: per opening of the run modal at most one POST /api/run-job is sent:
\* while handleRun waits for runJob, the modal starts no second run request.
C36_OneRunPerOpening == ui.sent <= 1

====
